---- MODULE Spec2Model ----
(***************************************************************************)
(* Model of the seat reservation bot (src/bot.py): the Database class      *)
(* (bookings and permanent_bookings tables) and the handlers that call it. *)
(*                                                                         *)
(* A booking_date column value is the text "DD.MM.YYYY"; it is represented *)
(* by its three zero-padded numeric fields <<dd, mm, yyyy>>, so equality   *)
(* and the lexicographic order of the text are those of the triple.        *)
(* A datetime.date object is represented by its day ordinal counted from   *)
(* Epoch; strftime and strptime convert between the two.                   *)
(* The weekdays column is the text ','.join(map(str, weekdays)); it is     *)
(* represented as the sequence of its characters.                          *)
(***************************************************************************)
EXTENDS Integers, Sequences, FiniteSets, TLC

VARIABLES bookings, permanent_bookings, today, pc, req, raised,
          ADMIN_IDS, admins, users, fsm_state, fsm_data, reply, update_id

\* the FSM storage (state and data of every user), the administrator list
\* in memory, the telegram ids of the tables admins and users, the last thing
\* the bot sent and the number of updates the dispatcher has handed to the
\* handlers of the conversation; raised tells whether a Database method has
\* let an exception escape to its caller
session == <<ADMIN_IDS, admins, users, fsm_state, fsm_data, reply, update_id>>

vars == <<bookings, permanent_bookings, today, pc, req, raised,
          ADMIN_IDS, admins, users, fsm_state, fsm_data, reply, update_id>>

(***************************************************************************)
(* Bounds of the model                                                     *)
(***************************************************************************)
MaxUser == 2        \* telegram ids of ordinary users are 1..MaxUser
MaxPlace == 2       \* seats chosen by inputs are 1..MaxPlace
MaxDay == 0         \* dates chosen by inputs are Epoch .. Epoch+MaxDay
MaxToday == 1       \* the clock advances at most to Epoch+MaxToday
MaxRegular == 2     \* rows inserted by create_booking / create_booking_for_user
MaxRules == 2       \* rows inserted into permanent_bookings
MaxWrites == 3      \* rows of both kinds inserted by handlers
MaxWeekday == 0     \* weekdays toggled by inputs are 0..MaxWeekday

(***************************************************************************)
(* Program constants                                                       *)
(***************************************************************************)
TOTAL_PLACES == 13
SUPER_ADMIN_ID == 528599224
HORIZON_DAYS == 60

Users == 1..MaxUser
Places == 1..MaxPlace

(***************************************************************************)
(* Calendar: datetime.date, strftime("%d.%m.%Y"), strptime, weekday()      *)
(***************************************************************************)
\* The date datetime.now() returns when the bot starts: Monday 01.12.2025.
Epoch == <<1, 12, 2025>>

IsLeap(y) == (y % 4 = 0 /\ y % 100 # 0) \/ y % 400 = 0

DaysInMonth(m, y) ==
    IF m = 2 THEN (IF IsLeap(y) THEN 29 ELSE 28)
    ELSE IF m \in {4, 6, 9, 11} THEN 30 ELSE 31

NextMonth(m, y) == IF m = 12 THEN <<1, y + 1>> ELSE <<m + 1, y>>

RECURSIVE MonthWalk(_, _, _)
\* the date n days after the first day of month m of year y
MonthWalk(n, m, y) ==
    IF n < DaysInMonth(m, y) THEN <<n + 1, m, y>>
    ELSE MonthWalk(n - DaysInMonth(m, y), NextMonth(m, y)[1], NextMonth(m, y)[2])

\* date.strftime("%d.%m.%Y") of the date with ordinal n
strftime(n) == MonthWalk(n + Epoch[1] - 1, Epoch[2], Epoch[3])

RECURSIVE DaysBefore(_, _, _, _)
\* days from the first day of month m0 of year y0 to the first day of month m of year y
DaysBefore(m0, y0, m, y) ==
    IF m0 = m /\ y0 = y THEN 0
    ELSE DaysInMonth(m0, y0) + DaysBefore(NextMonth(m0, y0)[1], NextMonth(m0, y0)[2], m, y)

\* datetime.strptime(s, "%d.%m.%Y").date() as an ordinal
strptime(s) == DaysBefore(Epoch[2], Epoch[3], s[2], s[3]) + s[1] - Epoch[1]

\* date.weekday(): 0 = Monday; Epoch is a Monday
weekday(n) == n % 7

(***************************************************************************)
(* The weekdays column: ','.join(map(str, weekdays)) and its readers       *)
(***************************************************************************)
DigitChars == <<"0", "1", "2", "3", "4", "5", "6", "7", "8", "9">>

\* str(d) for a weekday number
StrDigit(d) == DigitChars[d + 1]

RECURSIVE JoinWeekdays(_)
JoinWeekdays(w) ==
    IF w = <<>> THEN <<>>
    ELSE IF Len(w) = 1 THEN <<StrDigit(w[1])>>
    ELSE <<StrDigit(w[1]), ",">> \o JoinWeekdays(Tail(w))

RECURSIVE SplitComma(_, _)
\* text.split(','): cur is the token being read
SplitComma(text, cur) ==
    IF text = <<>> THEN <<cur>>
    ELSE IF Head(text) = "," THEN <<cur>> \o SplitComma(Tail(text), <<>>)
    ELSE SplitComma(Tail(text), Append(cur, Head(text)))

\* int(token) of a one-character token; -1 stands for ValueError
IntOf(token) ==
    IF Len(token) = 1 /\ \E d \in 0..9 : DigitChars[d + 1] = token[1]
    THEN CHOOSE d \in 0..9 : DigitChars[d + 1] = token[1]
    ELSE -1

\* [int(d) for d in text.split(',')]
ParseWeekdays(text) == [i \in 1..Len(SplitComma(text, <<>>)) |-> IntOf(SplitComma(text, <<>>)[i])]

\* weekdays LIKE '%<weekday>%'
LikeWeekday(text, wd) == \E i \in 1..Len(text) : text[i] = StrDigit(wd)

(***************************************************************************)
(* Database: the bookings and permanent_bookings tables.  A row id is the  *)
(* row's position in the table (INTEGER PRIMARY KEY AUTOINCREMENT, rows    *)
(* are never deleted).  NULL in permanent_booking_id is 0.                 *)
(***************************************************************************)
NULL == 0

BookingRow(user_id, place_id, date, btype, permanent_id) ==
    [user_id |-> user_id, place_id |-> place_id, booking_date |-> date,
     status |-> "active", booking_type |-> btype, permanent_booking_id |-> permanent_id]

PermanentRow(user_id, place_id, weekdays, admin_id) ==
    [user_id |-> user_id, place_id |-> place_id, weekdays |-> JoinWeekdays(weekdays),
     status |-> "active", created_by |-> admin_id]

\* the per-user query matching no row
CountUserActive_None(bk, user_id, date) == 0

\* SELECT COUNT(*) FROM bookings WHERE user_id = ? AND booking_date = ? AND status = 'active'
CountUserActive(bk, user_id, date) ==
    Cardinality({i \in 1..Len(bk) : bk[i].user_id = user_id /\ bk[i].booking_date = date
                                    /\ bk[i].status = "active"})

\* SELECT COUNT(*) FROM bookings WHERE place_id = ? AND booking_date = ? AND status = 'active'
CountPlaceActive(bk, place_id, date) ==
    Cardinality({i \in 1..Len(bk) : bk[i].place_id = place_id /\ bk[i].booking_date = date
                                    /\ bk[i].status = "active"})

has_user_booking_on_date(bk, user_id, date) == CountUserActive(bk, user_id, date) > 0

\* UPDATE bookings SET status = 'cancelled' for the rows in ids
SetCancelled(bk, ids) ==
    [i \in 1..Len(bk) |-> IF i \in ids THEN [bk[i] EXCEPT !.status = "cancelled"] ELSE bk[i]]

\* UPDATE permanent_bookings SET status = 'deleted' for the rows in ids
SetDeleted(pb, ids) ==
    [i \in 1..Len(pb) |-> IF i \in ids THEN [pb[i] EXCEPT !.status = "deleted"] ELSE pb[i]]

\* booked with the status test reading the wrong status
booked_WrongStatus(bk, date) ==
    {bk[i].place_id : i \in {j \in 1..Len(bk) : bk[j].booking_date = date /\ bk[j].status = "cancelled"}}

\* the list comprehension [row[0] for row in cursor.fetchall()] of the first query
booked(bk, date) ==
    {bk[i].place_id : i \in {j \in 1..Len(bk) : bk[j].booking_date = date /\ bk[j].status = "active"}}

permanent_candidates(pb, date) ==
    {pb[i].place_id : i \in {j \in 1..Len(pb) : pb[j].status = "active"
                                               /\ LikeWeekday(pb[j].weekdays, weekday(strptime(date)))}}

\* the cancelled-instance query reading the wrong status
CountCancelledPermanent_WrongStatus(bk, place_id, date) ==
    Cardinality({i \in 1..Len(bk) : bk[i].place_id = place_id /\ bk[i].booking_date = date
                                    /\ bk[i].booking_type = "permanent"
                                    /\ bk[i].status = "active"})

\* the cancelled-instance query without the date
CountCancelledPermanent_AnyDate(bk, place_id, date) ==
    Cardinality({i \in 1..Len(bk) : bk[i].place_id = place_id
                                    /\ bk[i].booking_type = "permanent"
                                    /\ bk[i].status = "cancelled"})

\* SELECT COUNT(*) ... WHERE place_id = ? AND booking_date = ? AND booking_type = 'permanent'
\*                       AND status = 'cancelled'
CountCancelledPermanent(bk, place_id, date) ==
    Cardinality({i \in 1..Len(bk) : bk[i].place_id = place_id /\ bk[i].booking_date = date
                                    /\ bk[i].booking_type = "permanent"
                                    /\ bk[i].status = "cancelled"})

permanent_booked(bk, pb, date) ==
    {p \in permanent_candidates(pb, date) : CountCancelledPermanent(bk, p, date) = 0}

AllPlaces == [i \in 1..TOTAL_PLACES |-> i]

\* get_available_places without the queries on permanent_bookings
get_available_places_BookedOnly(bk, pb, date) ==
    LET b == booked(bk, date)
    IN  SelectSeq(AllPlaces, LAMBDA p : p \notin b)

\* the list of free seats, ascending
get_available_places(bk, pb, date) ==
    LET b == booked(bk, date)
        pbk == permanent_booked(bk, pb, date)
    IN  SelectSeq(AllPlaces, LAMBDA p : p \notin b /\ p \notin pbk)

\* create_booking without the query on the user
create_booking_NoUserCheck(bk, user_id, place_id, date) ==
    IF CountPlaceActive(bk, place_id, date) > 0 THEN [ok |-> FALSE, bk |-> bk]
    ELSE [ok |-> TRUE, bk |-> Append(bk, BookingRow(user_id, place_id, date, "regular", NULL))]

\* create_booking without the query on the seat
create_booking_NoPlaceCheck(bk, user_id, place_id, date) ==
    IF CountUserActive(bk, user_id, date) > 0 THEN [ok |-> FALSE, bk |-> bk]
    ELSE [ok |-> TRUE, bk |-> Append(bk, BookingRow(user_id, place_id, date, "regular", NULL))]

create_booking(bk, user_id, place_id, date) ==
    IF CountUserActive(bk, user_id, date) > 0 THEN [ok |-> FALSE, bk |-> bk]
    ELSE IF CountPlaceActive(bk, place_id, date) > 0 THEN [ok |-> FALSE, bk |-> bk]
    ELSE [ok |-> TRUE, bk |-> Append(bk, BookingRow(user_id, place_id, date, "regular", NULL))]

\* cancel_booking with DELETE FROM bookings in place of the UPDATE
cancel_booking_Delete(bk, booking_id, user_id) ==
    LET hit == {i \in 1..Len(bk) : i = booking_id /\ bk[i].user_id = user_id /\ bk[i].status = "active"}
    IN  [ok |-> hit # {},
         bk |-> IF hit = {} THEN bk
                ELSE [i \in 1..(Len(bk) - 1) |-> IF i < booking_id THEN bk[i] ELSE bk[i + 1]]]

\* cancel_booking without the comparison of user_id
cancel_booking_AnyOwner(bk, booking_id, user_id) ==
    LET hit == {i \in 1..Len(bk) : i = booking_id /\ bk[i].status = "active"}
    IN  [ok |-> hit # {}, bk |-> SetCancelled(bk, hit)]

cancel_booking(bk, booking_id, user_id) ==
    LET hit == {i \in 1..Len(bk) : i = booking_id /\ bk[i].user_id = user_id /\ bk[i].status = "active"}
    IN  [ok |-> hit # {}, bk |-> SetCancelled(bk, hit)]

\* <<row>> for an active booking, <<>> for None
get_booking_by_id(bk, booking_id) ==
    IF booking_id \in 1..Len(bk) /\ bk[booking_id].status = "active" THEN <<bk[booking_id]>> ELSE <<>>

\* cancel_all_bookings without the UPDATE of permanent_bookings
cancel_all_bookings_BookingsOnly(bk, pb) ==
    LET bhit == {i \in 1..Len(bk) : bk[i].status = "active"}
    IN  [count |-> Cardinality(bhit), bk |-> SetCancelled(bk, bhit), pb |-> pb]

cancel_all_bookings(bk, pb) ==
    LET bhit == {i \in 1..Len(bk) : bk[i].status = "active"}
        phit == {i \in 1..Len(pb) : pb[i].status = "active"}
    IN  [count |-> Cardinality(bhit) + Cardinality(phit),
         bk |-> SetCancelled(bk, bhit), pb |-> SetDeleted(pb, phit)]

\* cancel_booking_admin without the test of the status
cancel_booking_admin_AnyStatus(bk, booking_id) ==
    LET hit == {i \in 1..Len(bk) : i = booking_id}
    IN  [ok |-> hit # {}, bk |-> SetCancelled(bk, hit)]

cancel_booking_admin(bk, booking_id) ==
    LET hit == {i \in 1..Len(bk) : i = booking_id /\ bk[i].status = "active"}
    IN  [ok |-> hit # {}, bk |-> SetCancelled(bk, hit)]

\* create_booking_for_user with the query on the user that create_booking makes
create_booking_for_user_UserCheck(bk, admin_user_id, target_user_id, place_id, date) ==
    IF CountUserActive(bk, target_user_id, date) > 0 THEN [ok |-> FALSE, bk |-> bk]
    ELSE IF CountPlaceActive(bk, place_id, date) > 0 THEN [ok |-> FALSE, bk |-> bk]
    ELSE [ok |-> TRUE, bk |-> Append(bk, BookingRow(target_user_id, place_id, date, "regular", NULL))]

\* create_booking_for_user without the query on the seat
create_booking_for_user_NoCheck(bk, admin_user_id, target_user_id, place_id, date) ==
    [ok |-> TRUE, bk |-> Append(bk, BookingRow(target_user_id, place_id, date, "regular", NULL))]

create_booking_for_user(bk, admin_user_id, target_user_id, place_id, date) ==
    IF CountPlaceActive(bk, place_id, date) > 0 THEN [ok |-> FALSE, bk |-> bk]
    ELSE [ok |-> TRUE, bk |-> Append(bk, BookingRow(target_user_id, place_id, date, "regular", NULL))]

\* the loop over the rules of the seat finding nothing
CheckExisting_Ok(pb, i, place_id, weekdays) == "ok"

RECURSIVE CheckExisting(_, _, _, _)
\* the loop over the active rules of the seat, in row order: "conflict" when a
\* rule shares a day, "error" when a stored weekdays text does not parse, else "ok"
CheckExisting(pb, i, place_id, weekdays) ==
    IF i > Len(pb) THEN "ok"
    ELSE IF ~(pb[i].place_id = place_id /\ pb[i].status = "active")
         THEN CheckExisting(pb, i + 1, place_id, weekdays)
    ELSE LET existing_weekdays == ParseWeekdays(pb[i].weekdays)
         IN  IF \E k \in 1..Len(existing_weekdays) : existing_weekdays[k] = -1 THEN "error"
             ELSE IF \E d \in 1..Len(weekdays) : \E k \in 1..Len(existing_weekdays) :
                        weekdays[d] = existing_weekdays[k]
                  THEN "conflict"
             ELSE CheckExisting(pb, i + 1, place_id, weekdays)

\* SELECT id FROM permanent_bookings WHERE user_id = ? AND place_id = ? AND status = 'active'
HasUserPlaceRule(pb, user_id, place_id) ==
    \E i \in 1..Len(pb) : pb[i].user_id = user_id /\ pb[i].place_id = place_id /\ pb[i].status = "active"

RECURSIVE Expand_NoCheck(_, _, _, _, _, _, _)
\* the expansion loop without the query on the seat
Expand_NoCheck(bk, i, now, user_id, place_id, weekdays, permanent_id) ==
    IF i >= HORIZON_DAYS THEN bk
    ELSE IF \E d \in 1..Len(weekdays) : weekdays[d] = weekday(now + i)
         THEN Expand_NoCheck(Append(bk, BookingRow(user_id, place_id, strftime(now + i),
                                                   "permanent", permanent_id)),
                             i + 1, now, user_id, place_id, weekdays, permanent_id)
         ELSE Expand_NoCheck(bk, i + 1, now, user_id, place_id, weekdays, permanent_id)

RECURSIVE Expand(_, _, _, _, _, _, _)
\* the loop "for i in range(60)" from index i on
Expand(bk, i, now, user_id, place_id, weekdays, permanent_id) ==
    IF i >= HORIZON_DAYS THEN bk
    ELSE LET check_date == now + i
             date_str == strftime(check_date)
         IN  IF (\E d \in 1..Len(weekdays) : weekdays[d] = weekday(check_date))
                /\ CountPlaceActive(bk, place_id, date_str) = 0
             THEN Expand(Append(bk, BookingRow(user_id, place_id, date_str, "permanent", permanent_id)),
                         i + 1, now, user_id, place_id, weekdays, permanent_id)
             ELSE Expand(bk, i + 1, now, user_id, place_id, weekdays, permanent_id)

\* create_permanent_booking with no check of the rules and none of the seat
create_permanent_booking_Unchecked(bk, pb, now, admin_id, user_id, place_id, weekdays) ==
    [ok |-> TRUE, pb |-> Append(pb, PermanentRow(user_id, place_id, weekdays, admin_id)),
     bk |-> Expand_NoCheck(bk, 0, now, user_id, place_id, weekdays, Len(pb) + 1)]

\* create_permanent_booking with the expansion starting the day after today
create_permanent_booking_FromTomorrow(bk, pb, now, admin_id, user_id, place_id, weekdays) ==
    IF CheckExisting(pb, 1, place_id, weekdays) # "ok" THEN [ok |-> FALSE, bk |-> bk, pb |-> pb]
    ELSE IF HasUserPlaceRule(pb, user_id, place_id) THEN [ok |-> FALSE, bk |-> bk, pb |-> pb]
    ELSE [ok |-> TRUE, pb |-> Append(pb, PermanentRow(user_id, place_id, weekdays, admin_id)),
          bk |-> Expand(bk, 1, now, user_id, place_id, weekdays, Len(pb) + 1)]

create_permanent_booking(bk, pb, now, admin_id, user_id, place_id, weekdays) ==
    IF CheckExisting(pb, 1, place_id, weekdays) # "ok" THEN [ok |-> FALSE, bk |-> bk, pb |-> pb]
    ELSE IF HasUserPlaceRule(pb, user_id, place_id) THEN [ok |-> FALSE, bk |-> bk, pb |-> pb]
    ELSE LET pb2 == Append(pb, PermanentRow(user_id, place_id, weekdays, admin_id))
             permanent_id == Len(pb2)
         IN  [ok |-> TRUE, pb |-> pb2,
              bk |-> Expand(bk, 0, now, user_id, place_id, weekdays, permanent_id)]

\* delete_permanent_booking without the comparison with today
delete_permanent_booking_AllDates(bk, pb, now, permanent_id) ==
    LET bookings_to_check == {i \in 1..Len(bk) : bk[i].permanent_booking_id = permanent_id
                                                 /\ bk[i].status = "active"}
    IN  [ok |-> TRUE, pb |-> SetDeleted(pb, {permanent_id} \cap (1..Len(pb))),
         bk |-> SetCancelled(bk, bookings_to_check)]

\* delete_permanent_booking cancelling the future instances of every rule
delete_permanent_booking_EveryRule(bk, pb, now, permanent_id) ==
    LET bookings_to_check == {i \in 1..Len(bk) : bk[i].booking_type = "permanent"
                                                 /\ bk[i].status = "active"}
        future == {i \in bookings_to_check : strptime(bk[i].booking_date) >= now}
    IN  [ok |-> TRUE, pb |-> SetDeleted(pb, {permanent_id} \cap (1..Len(pb))),
         bk |-> SetCancelled(bk, future)]

delete_permanent_booking(bk, pb, now, permanent_id) ==
    LET bookings_to_check == {i \in 1..Len(bk) : bk[i].permanent_booking_id = permanent_id
                                                 /\ bk[i].status = "active"}
        future == {i \in bookings_to_check : strptime(bk[i].booking_date) >= now}
    IN  [ok |-> TRUE, pb |-> SetDeleted(pb, {permanent_id} \cap (1..Len(pb))),
         bk |-> SetCancelled(bk, future)]

(***************************************************************************)
(* Inputs                                                                  *)
(***************************************************************************)
\* date texts a calendar keyboard can carry (a keyboard stays usable after midnight)
InputDates == {strftime(n) : n \in 0..MaxDay}

\* lists the weekday toggles build and the "Готово" button accepts: not
\* empty, no day twice; the days are toggled in the order of the keyboard
WeekdayLists ==
    {w \in UNION {[1..n -> 0..MaxWeekday] : n \in 1..(MaxWeekday + 1)} :
        \A i, j \in 1..Len(w) : i < j => w[i] < w[j]}

\* booking ids a booking keyboard can carry, and one id of no row
BookingIds(bk) == {i \in 1..Len(bk) : bk[i].booking_date \in InputDates} \cup {Len(bk) + 1}

NumRegular(bk) == Cardinality({i \in 1..Len(bk) : bk[i].booking_type = "regular"})

\* room for one more row inserted by create_booking / create_booking_for_user
RoomForBooking ==
    /\ NumRegular(bookings) < MaxRegular
    /\ NumRegular(bookings) + Len(permanent_bookings) < MaxWrites

\* room for one more row in permanent_bookings
RoomForRule ==
    /\ Len(permanent_bookings) < MaxRules
    /\ NumRegular(bookings) + Len(permanent_bookings) < MaxWrites

NoDate == <<0, 0, 0>>

IdleReq == [place |-> 0, date |-> NoDate, ok |-> FALSE]

\* the callers of the bot: the ordinary users and the super administrator
FlowUsers == Users \cup {SUPER_ADMIN_ID}

\* state.get_data() of a cleared session: every data.get(key) is None,
\* data.get('selected_weekdays', []) is []
EmptyData ==
    [target_user_id |-> NULL, booking_date |-> NoDate, place_id |-> NULL, new_place_id |-> NULL,
     old_booking_id |-> NULL, selected_booking_id |-> NULL, permanent_user_id |-> NULL,
     permanent_place_id |-> NULL, selected_weekdays |-> <<>>]

\* what the bot sent last: the receiver, the kind of message or alert, and
\* the seats of a places keyboard
Reply(u, kind) == [to |-> u, kind |-> kind, places |-> <<>>]

PlacesReply(u, available_places) == [to |-> u, kind |-> "places", places |-> available_places]

\* init_db inserts SUPER_ADMIN_ID into admins; ADMIN_IDS = db.get_all_admins();
\* MemoryStorage() starts with no state and no data for anybody; every user
\* has sent /start
InitSession ==
    /\ admins = {SUPER_ADMIN_ID}
    /\ ADMIN_IDS = admins
    /\ users = FlowUsers
    /\ fsm_state = [u \in FlowUsers |-> "None"]
    /\ fsm_data = [u \in FlowUsers |-> EmptyData]
    /\ reply = Reply(NULL, "none")
    /\ update_id = 0

Init ==
    /\ bookings = <<>>
    /\ permanent_bookings = <<>>
    /\ today = 0
    /\ pc = [u \in Users |-> "idle"]
    /\ req = [u \in Users |-> IdleReq]
    /\ raised = FALSE
    /\ InitSession

(***************************************************************************)
(* Handlers, each run as a whole                                           *)
(***************************************************************************)
\* confirm_action, state BookingStates:confirming_booking
ConfirmBooking(u, p, d) ==
    /\ RoomForBooking
    /\ LET r == create_booking(bookings, u, p, d)
       IN  bookings' = r.bk
    /\ UNCHANGED <<permanent_bookings, today, pc, req, raised>>
    /\ UNCHANGED session

\* confirm_action, state ChangeStates:confirming_change
ConfirmChange(u, old, p, d) ==
    /\ RoomForBooking
    /\ LET c == cancel_booking(bookings, old, u)
           r == create_booking(c.bk, u, p, d)
       IN  bookings' = r.bk
    /\ UNCHANGED <<permanent_bookings, today, pc, req, raised>>
    /\ UNCHANGED session

\* confirm_action, state AdminStates:booking_for_user_confirm
ConfirmAdminBooking(t, p, d) ==
    /\ RoomForBooking
    /\ LET r == create_booking_for_user(bookings, SUPER_ADMIN_ID, t, p, d)
       IN  bookings' = r.bk
    /\ UNCHANGED <<permanent_bookings, today, pc, req, raised>>
    /\ UNCHANGED session

\* confirm_action, state AdminStates:change_for_user_confirm
ConfirmAdminChange(t, old, p, d) ==
    /\ RoomForBooking
    /\ LET c == cancel_booking_admin(bookings, old)
           r == create_booking_for_user(c.bk, SUPER_ADMIN_ID, t, p, d)
       IN  bookings' = r.bk
    /\ UNCHANGED <<permanent_bookings, today, pc, req, raised>>
    /\ UNCHANGED session

\* process_booking_action, state CancelStates:selecting_booking
\* (confirm_cancel_from_details makes the same two Database calls)
SelfCancel(u, id) ==
    /\ LET c == IF get_booking_by_id(bookings, id) = <<>>
                THEN [ok |-> FALSE, bk |-> bookings]
                ELSE cancel_booking(bookings, id, u)
       IN  bookings' = c.bk
    /\ UNCHANGED <<permanent_bookings, today, pc, req, raised>>
    /\ UNCHANGED session

\* process_booking_action, state AdminStates:selecting_user_booking
AdminCancel(id) ==
    /\ LET c == IF get_booking_by_id(bookings, id) = <<>>
                THEN [ok |-> FALSE, bk |-> bookings]
                ELSE cancel_booking_admin(bookings, id)
       IN  bookings' = c.bk
    /\ UNCHANGED <<permanent_bookings, today, pc, req, raised>>
    /\ UNCHANGED session

\* admin_cancel_all_execute
CancelAllExecute ==
    /\ LET r == cancel_all_bookings(bookings, permanent_bookings)
       IN  /\ bookings' = r.bk
           /\ permanent_bookings' = r.pb
    /\ UNCHANGED <<today, pc, req, raised>>
    /\ UNCHANGED session

\* admin_permanent_create_confirm
PermanentCreateConfirm(u, p, w) ==
    /\ RoomForRule
    /\ LET r == create_permanent_booking(bookings, permanent_bookings, today, SUPER_ADMIN_ID, u, p, w)
       IN  /\ bookings' = r.bk
           /\ permanent_bookings' = r.pb
    /\ UNCHANGED <<today, pc, req, raised>>
    /\ UNCHANGED session

\* admin_delete_permanent_confirm
DeletePermanentConfirm(id) ==
    /\ LET r == delete_permanent_booking(bookings, permanent_bookings, today, id)
       IN  /\ bookings' = r.bk
           /\ permanent_bookings' = r.pb
    /\ UNCHANGED <<today, pc, req, raised>>
    /\ UNCHANGED session

\* midnight: datetime.now().date() moves to the next day
Midnight ==
    /\ today < MaxToday
    /\ today' = today + 1
    /\ UNCHANGED <<bookings, permanent_bookings, pc, req, raised>>
    /\ UNCHANGED session

Next ==
    \/ \E u \in Users, p \in Places, d \in InputDates : ConfirmBooking(u, p, d)
    \/ \E u \in Users, old \in BookingIds(bookings), p \in Places, d \in InputDates :
          ConfirmChange(u, old, p, d)
    \/ \E t \in Users, p \in Places, d \in InputDates : ConfirmAdminBooking(t, p, d)
    \/ \E t \in Users, old \in BookingIds(bookings), p \in Places, d \in InputDates :
          ConfirmAdminChange(t, old, p, d)
    \/ \E u \in Users, id \in BookingIds(bookings) : SelfCancel(u, id)
    \/ \E id \in BookingIds(bookings) : AdminCancel(id)
    \/ CancelAllExecute
    \/ \E u \in Users, p \in Places, w \in WeekdayLists : PermanentCreateConfirm(u, p, w)
    \/ \E id \in 1..Len(permanent_bookings) : DeletePermanentConfirm(id)
    \/ Midnight

Spec == Init /\ [][Next]_vars

(***************************************************************************)
(* confirm_action run as a coroutine: handlers of different users          *)
(* interleave at their awaits.  pc[u] is the position of u's handler:      *)
(*   "idle"        no handler running                                      *)
(*   "confirm_yes" suspended in "await state.get_data()"                   *)
(*   "answer"      create_booking returned, suspended in                   *)
(*                 "await callback.message.answer(...)"                    *)
(*   "done"        state.clear() ran, handler returned                     *)
(* Database.create_booking is synchronous code without an await, so the    *)
(* event loop runs it as one step.                                         *)
(***************************************************************************)
\* stores one run of confirm_action leaves behind
InitRace ==
    /\ bookings \in {<<>>} \cup {<<BookingRow(u, p, d, "regular", NULL)>> :
                                   u \in Users, p \in Places, d \in InputDates}
    /\ permanent_bookings = <<>>
    /\ today = 0
    /\ pc = [u \in Users |-> "idle"]
    /\ req = [u \in Users |-> IdleReq]
    /\ raised = FALSE
    /\ InitSession

\* the update "confirm_yes" arrives for u, whose session holds place_id p, booking_date d
ConfirmYesEnter(u, p, d) ==
    /\ pc[u] = "idle"
    /\ pc' = [pc EXCEPT ![u] = "confirm_yes"]
    /\ req' = [req EXCEPT ![u] = [place |-> p, date |-> d, ok |-> FALSE]]
    /\ UNCHANGED <<bookings, permanent_bookings, today, raised>>
    /\ UNCHANGED session

\* success = db.create_booking(user_id, place_id, booking_date)
ConfirmYesCreate(u) ==
    /\ pc[u] = "confirm_yes"
    /\ LET r == create_booking(bookings, u, req[u].place, req[u].date)
       IN  /\ bookings' = r.bk
           /\ req' = [req EXCEPT ![u].ok = r.ok]
    /\ pc' = [pc EXCEPT ![u] = "answer"]
    /\ UNCHANGED <<permanent_bookings, today, raised>>
    /\ UNCHANGED session

\* the answer was sent; await state.clear()
ConfirmYesClear(u) ==
    /\ pc[u] = "answer"
    /\ pc' = [pc EXCEPT ![u] = "done"]
    /\ UNCHANGED <<bookings, permanent_bookings, today, req, raised>>
    /\ UNCHANGED session

NextRace ==
    \/ \E u \in Users, p \in Places, d \in InputDates : ConfirmYesEnter(u, p, d)
    \/ \E u \in Users : ConfirmYesCreate(u)
    \/ \E u \in Users : ConfirmYesClear(u)

SpecRace == InitRace /\ [][NextRace]_vars

(***************************************************************************)
(* The conversation state machine: every handler of a booking, cancel,     *)
(* change, recurring-rule or administrator-list flow, one action each, run *)
(* as a whole.  A callback handler is registered without a state filter    *)
(* unless noted, so it runs in whatever state the caller's session is in   *)
(* (buttons of old messages stay usable) and branches on current_state     *)
(* itself.  The handlers that only draw a calendar or show details, and    *)
(* the office-map flow, are left out.                                      *)
(***************************************************************************)
MaxUpdates == 6     \* updates handled in the conversation model
MaxCallers == 1     \* ordinary users who send updates

is_admin(user_id) == user_id \in ADMIN_IDS

\* the ids of the rows get_user_bookings(user_id) returns
get_user_bookings(bk, user_id) ==
    {i \in 1..Len(bk) : bk[i].user_id = user_id /\ bk[i].status = "active"}

\* the BINARY collation on two booking_date texts "DD.MM.YYYY": the column is
\* declared DATE, the text is no number and is stored and compared as text,
\* character by character, that is day field first, then month, then year
TextBefore(a, b) ==
    \/ a[1] < b[1]
    \/ a[1] = b[1] /\ a[2] < b[2]
    \/ a[1] = b[1] /\ a[2] = b[2] /\ a[3] < b[3]

\* the rows with ids in the order of the sort keys, before being the pairs
\* <<i, j>> with the key of i below the key of j; rows with equal keys are
\* put in the order of their ids (SQLite leaves their order open)
OrderBy(ids, before) ==
    LET First(i, j) == <<i, j>> \in before \/ (<<j, i>> \notin before /\ i < j)
    IN  [n \in 1..Cardinality(ids) |->
            CHOOSE i \in ids : Cardinality({j \in ids : First(j, i)}) = n - 1]

\* the ids of the rows of get_user_bookings(user_id), in the order of
\* ORDER BY b.booking_date
get_user_bookings_list(bk, user_id) ==
    LET ids == get_user_bookings(bk, user_id)
    IN  OrderBy(ids, {q \in ids \X ids : TextBefore(bk[q[1]].booking_date, bk[q[2]].booking_date)})

\* the ids of the active rows get_all_bookings() lists (JOIN users keeps the
\* rows whose user_id is in the table users), in the order of
\* ORDER BY b.booking_date, b.place_id
get_all_bookings(bk, us) ==
    LET ids == {i \in 1..Len(bk) : bk[i].status = "active" /\ bk[i].user_id \in us}
    IN  OrderBy(ids, {q \in ids \X ids :
                        \/ TextBefore(bk[q[1]].booking_date, bk[q[2]].booking_date)
                        \/ /\ bk[q[1]].booking_date = bk[q[2]].booking_date
                           /\ bk[q[1]].place_id < bk[q[2]].place_id})

\* the ids of the rows get_permanent_bookings(user_id) returns (JOIN users)
get_permanent_bookings(pb, us, user_id) ==
    {i \in 1..Len(pb) : pb[i].user_id = user_id /\ pb[i].status = "active" /\ pb[i].user_id \in us}

\* the ordinary users who talk to the bot; the others are only named
FlowCallers == 1..MaxCallers

\* the INSERT of a row with a NULL in a NOT NULL column raises, and the
\* method returns False
NotNullBooking(user_id, place_id, date) == user_id # NULL /\ place_id # NULL /\ date # NoDate

\* await state.set_state(s)
set_state(u, s) == fsm_state' = [fsm_state EXCEPT ![u] = s]

\* await state.clear()
clear(u) ==
    /\ fsm_state' = [fsm_state EXCEPT ![u] = "None"]
    /\ fsm_data' = [fsm_data EXCEPT ![u] = EmptyData]

StoreUnchanged == UNCHANGED <<bookings, permanent_bookings, today, pc, req, raised>>

\* "🪑 Забронировать место"
start_booking(u) ==
    /\ set_state(u, "BookingStates:waiting_for_date")
    /\ reply' = Reply(u, "calendar")
    /\ UNCHANGED <<fsm_data, ADMIN_IDS, admins, users>>
    /\ StoreUnchanged

\* "❌ Отменить бронь"
start_cancel(u) ==
    /\ IF get_user_bookings(bookings, u) = {}
       THEN reply' = Reply(u, "no_bookings") /\ UNCHANGED fsm_state
       ELSE reply' = Reply(u, "bookings") /\ set_state(u, "CancelStates:selecting_booking")
    /\ UNCHANGED <<fsm_data, ADMIN_IDS, admins, users>>
    /\ StoreUnchanged

\* "🔁 Поменять бронь"
start_change(u) ==
    /\ IF get_user_bookings(bookings, u) = {}
       THEN reply' = Reply(u, "no_bookings") /\ UNCHANGED fsm_state
       ELSE reply' = Reply(u, "bookings") /\ set_state(u, "ChangeStates:selecting_booking")
    /\ UNCHANGED <<fsm_data, ADMIN_IDS, admins, users>>
    /\ StoreUnchanged

\* callback "cancel_calendar" (close_calendar does the same)
cancel_calendar(u) ==
    /\ clear(u)
    /\ reply' = Reply(u, "calendar_cancelled")
    /\ UNCHANGED <<ADMIN_IDS, admins, users>>
    /\ StoreUnchanged

\* the state process_date_selection moves to
AfterDate(current_state) ==
    CASE current_state = "BookingStates:waiting_for_date" -> "BookingStates:waiting_for_place"
      [] current_state = "ChangeStates:waiting_for_new_date" -> "ChangeStates:waiting_for_new_place"
      [] current_state = "AdminStates:booking_for_user_date" -> "AdminStates:booking_for_user_place"
      [] current_state = "AdminStates:change_for_user_place" -> "AdminStates:change_for_user_confirm"
      [] OTHER -> current_state

\* process_date_selection without its two refusals
process_date_selection_NoRefusal(u, date_str) ==
    /\ fsm_data' = [fsm_data EXCEPT ![u].booking_date = date_str]
    /\ reply' = PlacesReply(u, get_available_places(bookings, permanent_bookings, date_str))
    /\ set_state(u, AfterDate(fsm_state[u]))
    /\ UNCHANGED <<ADMIN_IDS, admins, users>>
    /\ StoreUnchanged

\* callback "date_<date_str>"
process_date_selection(u, date_str) ==
    LET current_state == fsm_state[u]
        available_places == get_available_places(bookings, permanent_bookings, date_str)
    IN  /\ IF current_state = "BookingStates:waiting_for_date"
              /\ has_user_booking_on_date(bookings, u, date_str)
           THEN reply' = Reply(u, "already_booked") /\ UNCHANGED <<fsm_state, fsm_data>>
           ELSE IF available_places = <<>>
           THEN reply' = Reply(u, "all_taken") /\ UNCHANGED <<fsm_state, fsm_data>>
           ELSE /\ fsm_data' = [fsm_data EXCEPT ![u].booking_date = date_str]
                /\ reply' = PlacesReply(u, available_places)
                /\ set_state(u, AfterDate(current_state))
        /\ UNCHANGED <<ADMIN_IDS, admins, users>>
        /\ StoreUnchanged

\* callback "place_<place_id>"
process_place_selection(u, place_id) ==
    LET current_state == fsm_state[u]
        data == fsm_data[u]
    IN  /\ CASE current_state = "BookingStates:waiting_for_place" ->
                  /\ fsm_data' = [fsm_data EXCEPT ![u].place_id = place_id]
                  /\ reply' = Reply(u, "confirm")
                  /\ set_state(u, "BookingStates:confirming_booking")
             [] current_state = "ChangeStates:waiting_for_new_place" ->
                  /\ fsm_data' = [fsm_data EXCEPT ![u].new_place_id = place_id]
                  /\ reply' = Reply(u, "confirm")
                  /\ set_state(u, "ChangeStates:confirming_change")
             [] current_state = "AdminStates:booking_for_user_place" ->
                  /\ fsm_data' = [fsm_data EXCEPT ![u].place_id = place_id]
                  \* data['target_user_id'] raises KeyError when the key is missing
                  /\ IF data.target_user_id = NULL \/ data.booking_date = NoDate
                     THEN reply' = Reply(u, "error") /\ UNCHANGED fsm_state
                     ELSE /\ reply' = Reply(u, "confirm")
                          /\ set_state(u, "AdminStates:booking_for_user_confirm")
             [] current_state = "AdminStates:change_for_user_confirm" ->
                  /\ fsm_data' = [fsm_data EXCEPT ![u].new_place_id = place_id]
                  /\ IF data.target_user_id = NULL \/ data.booking_date = NoDate
                     THEN reply' = Reply(u, "error")
                     ELSE reply' = Reply(u, "confirm")
                  /\ UNCHANGED fsm_state
             [] OTHER ->
                  /\ reply' = Reply(u, "answer")
                  /\ UNCHANGED <<fsm_state, fsm_data>>
        /\ UNCHANGED <<ADMIN_IDS, admins, users>>
        /\ StoreUnchanged

\* the states in which confirm_action calls the Database
ConfirmStates ==
    {"BookingStates:confirming_booking", "ChangeStates:confirming_change",
     "AdminStates:booking_for_user_confirm", "AdminStates:change_for_user_confirm"}

\* the table after the Database calls of confirm_action
confirm_result(bk, u, current_state, data) ==
    CASE current_state = "BookingStates:confirming_booking" ->
           IF NotNullBooking(u, data.place_id, data.booking_date)
           THEN create_booking(bk, u, data.place_id, data.booking_date)
           ELSE [ok |-> FALSE, bk |-> bk]
      [] current_state = "ChangeStates:confirming_change" ->
           LET c == cancel_booking(bk, data.old_booking_id, u)
           IN  IF NotNullBooking(u, data.new_place_id, data.booking_date)
               THEN create_booking(c.bk, u, data.new_place_id, data.booking_date)
               ELSE [ok |-> FALSE, bk |-> c.bk]
      [] current_state = "AdminStates:booking_for_user_confirm" ->
           IF NotNullBooking(data.target_user_id, data.place_id, data.booking_date)
           THEN create_booking_for_user(bk, u, data.target_user_id, data.place_id, data.booking_date)
           ELSE [ok |-> FALSE, bk |-> bk]
      [] current_state = "AdminStates:change_for_user_confirm" ->
           LET c == cancel_booking_admin(bk, data.old_booking_id)
           IN  IF NotNullBooking(data.target_user_id, data.new_place_id, data.booking_date)
               THEN create_booking_for_user(c.bk, u, data.target_user_id, data.new_place_id,
                                            data.booking_date)
               ELSE [ok |-> FALSE, bk |-> c.bk]

\* callback "confirm_yes"
confirm_action(u) ==
    /\ IF fsm_state[u] \in ConfirmStates
       THEN /\ LET r == confirm_result(bookings, u, fsm_state[u], fsm_data[u])
               IN  /\ bookings' = r.bk
                   /\ reply' = Reply(u, IF r.ok THEN "done" ELSE "failed")
            /\ clear(u)
       ELSE /\ reply' = Reply(u, "answer")
            /\ UNCHANGED <<bookings, fsm_state, fsm_data>>
    /\ UNCHANGED <<permanent_bookings, today, pc, req, raised, ADMIN_IDS, admins, users>>

\* confirm_cancel without state.clear()
cancel_action_KeepSession(u) ==
    /\ reply' = Reply(u, "action_cancelled")
    /\ UNCHANGED <<fsm_state, fsm_data, ADMIN_IDS, admins, users>>
    /\ StoreUnchanged

\* callback "confirm_cancel"
cancel_action(u) ==
    /\ clear(u)
    /\ reply' = Reply(u, "action_cancelled")
    /\ UNCHANGED <<ADMIN_IDS, admins, users>>
    /\ StoreUnchanged

\* callback "confirm_change"
change_selection(u) ==
    LET current_state == fsm_state[u]
        available_places ==
            get_available_places(bookings, permanent_bookings, fsm_data[u].booking_date)
    IN  /\ CASE current_state = "BookingStates:confirming_booking" ->
                  reply' = PlacesReply(u, available_places)
                  /\ set_state(u, "BookingStates:waiting_for_place")
             [] current_state = "AdminStates:booking_for_user_confirm" ->
                  reply' = PlacesReply(u, available_places)
                  /\ set_state(u, "AdminStates:booking_for_user_place")
             [] current_state = "ChangeStates:confirming_change" ->
                  reply' = PlacesReply(u, available_places)
                  /\ set_state(u, "ChangeStates:waiting_for_new_place")
             [] OTHER ->
                  reply' = Reply(u, "answer") /\ UNCHANGED fsm_state
        /\ UNCHANGED <<fsm_data, ADMIN_IDS, admins, users>>
        /\ StoreUnchanged

\* callback "booking_<booking_id>"
process_booking_action(u, booking_id) ==
    LET current_state == fsm_state[u]
    IN  /\ IF get_booking_by_id(bookings, booking_id) = <<>>
           THEN /\ reply' = Reply(u, "not_found")
                /\ clear(u)
                /\ UNCHANGED bookings
           ELSE CASE current_state = "CancelStates:selecting_booking" ->
                       LET c == cancel_booking(bookings, booking_id, u)
                       IN  /\ bookings' = c.bk
                           /\ reply' = Reply(u, IF c.ok THEN "done" ELSE "failed")
                           /\ clear(u)
                  [] current_state = "ChangeStates:selecting_booking" ->
                       /\ fsm_data' = [fsm_data EXCEPT ![u].old_booking_id = booking_id]
                       /\ reply' = Reply(u, "calendar")
                       /\ set_state(u, "ChangeStates:waiting_for_new_date")
                       /\ UNCHANGED bookings
                  [] current_state = "AdminStates:selecting_user_booking" ->
                       LET c == cancel_booking_admin(bookings, booking_id)
                       IN  /\ bookings' = c.bk
                           /\ reply' = Reply(u, IF c.ok THEN "done" ELSE "failed")
                           /\ clear(u)
                  [] current_state = "AdminStates:change_for_user_date" ->
                       /\ fsm_data' = [fsm_data EXCEPT ![u].old_booking_id = booking_id]
                       /\ reply' = Reply(u, "calendar")
                       /\ set_state(u, "AdminStates:change_for_user_place")
                       /\ UNCHANGED bookings
                  [] OTHER ->
                       /\ reply' = Reply(u, "answer")
                       /\ UNCHANGED <<bookings, fsm_state, fsm_data>>
        /\ UNCHANGED <<permanent_bookings, today, pc, req, raised, ADMIN_IDS, admins, users>>

\* callback "confirm_cancel_booking_<booking_id>"
confirm_cancel_from_details(u, booking_id) ==
    /\ IF get_booking_by_id(bookings, booking_id) = <<>>
       THEN /\ reply' = Reply(u, "not_found")
            /\ UNCHANGED <<bookings, fsm_state, fsm_data>>
       ELSE LET c == cancel_booking(bookings, booking_id, u)
            IN  /\ bookings' = c.bk
                /\ reply' = Reply(u, IF c.ok THEN "done" ELSE "failed")
                /\ clear(u)
    /\ UNCHANGED <<permanent_bookings, today, pc, req, raised, ADMIN_IDS, admins, users>>

\* callback "confirm_change_booking_<booking_id>"
confirm_change_from_details(u, booking_id) ==
    /\ IF get_booking_by_id(bookings, booking_id) = <<>>
       THEN /\ reply' = Reply(u, "not_found")
            /\ UNCHANGED <<fsm_state, fsm_data>>
       ELSE /\ fsm_data' = [fsm_data EXCEPT ![u].old_booking_id = booking_id]
            /\ reply' = Reply(u, "calendar")
            /\ set_state(u, "ChangeStates:waiting_for_new_date")
    /\ UNCHANGED <<ADMIN_IDS, admins, users>>
    /\ StoreUnchanged

\* callback "view_booking_<date_str>": the details of the caller's booking of a date
view_booking_details(u, date_str) ==
    LET found == {i \in get_user_bookings(bookings, u) : bookings[i].booking_date = date_str}
    IN  /\ IF found = {}
           THEN reply' = Reply(u, "not_found") /\ UNCHANGED fsm_data
           ELSE \* ORDER BY booking_date leaves the order of the rows of one date open
                \E booking \in found :
                    /\ fsm_data' = [fsm_data EXCEPT ![u].selected_booking_id = booking]
                    /\ reply' = Reply(u, "details")
        /\ UNCHANGED <<fsm_state, ADMIN_IDS, admins, users>>
        /\ StoreUnchanged

\* the refusal every guarded callback gives: callback.answer("❌ Нет прав"); return
NoRights(u) ==
    /\ reply' = Reply(u, "no_rights")
    /\ UNCHANGED <<fsm_state, fsm_data, ADMIN_IDS, admins, users>>
    /\ StoreUnchanged

\* an entry point without the test of is_admin
admin_entry_Unguarded(u, s) ==
    /\ reply' = Reply(u, "prompt")
    /\ set_state(u, s)
    /\ UNCHANGED <<fsm_data, ADMIN_IDS, admins, users>>
    /\ StoreUnchanged

\* the shape of an entry point: refuse, or prompt for the user and set the state
admin_entry(u, s) ==
    IF ~is_admin(u) THEN NoRights(u)
    ELSE /\ reply' = Reply(u, "prompt")
         /\ set_state(u, s)
         /\ UNCHANGED <<fsm_data, ADMIN_IDS, admins, users>>
         /\ StoreUnchanged

\* callback "admin_cancel_all_confirm"
admin_cancel_all_execute(u) ==
    IF ~is_admin(u) THEN NoRights(u)
    ELSE LET r == cancel_all_bookings(bookings, permanent_bookings)
         IN  /\ bookings' = r.bk
             /\ permanent_bookings' = r.pb
             /\ reply' = Reply(u, "cancelled_all")
             /\ UNCHANGED <<today, pc, req, raised, fsm_state, fsm_data, ADMIN_IDS, admins, users>>

\* callback "admin_cancel_user"
admin_cancel_user_start(u) == admin_entry(u, "AdminStates:waiting_for_user_identifier")

\* callback "admin_book_for_user"
admin_book_for_user_start(u) == admin_entry(u, "AdminStates:booking_for_user_date")

\* callback "admin_change_for_user"
admin_change_for_user_start(u) == admin_entry(u, "AdminStates:change_for_user_select")

\* callback "admin_add_admin"
admin_add_admin_start(u) == admin_entry(u, "AdminStates:adding_admin")

\* callback "admin_remove_admin"
admin_remove_admin_start(u) ==
    IF ~is_admin(u) THEN NoRights(u)
    ELSE IF ADMIN_IDS \ {SUPER_ADMIN_ID} = {}
    THEN /\ reply' = Reply(u, "nobody_to_remove")
         /\ UNCHANGED <<fsm_state, fsm_data, ADMIN_IDS, admins, users>>
         /\ StoreUnchanged
    ELSE admin_entry(u, "AdminStates:removing_admin")

\* callback "admin_create_permanent"
admin_create_permanent_start(u) == admin_entry(u, "AdminStates:permanent_user_id")

\* callback "admin_delete_permanent"
admin_delete_permanent_start(u) == admin_entry(u, "AdminStates:delete_permanent_user")

\* the first lines of every message handler of an AdminStates state:
\* if not is_admin(...): await state.clear(); return
Revoked(u) ==
    /\ clear(u)
    /\ reply' = Reply(u, "none")
    /\ UNCHANGED <<ADMIN_IDS, admins, users>>
    /\ StoreUnchanged

\* a message answered without a change of the session
Answer(u, kind) ==
    /\ reply' = Reply(u, kind)
    /\ UNCHANGED <<fsm_state, fsm_data, ADMIN_IDS, admins, users>>
    /\ StoreUnchanged

\* a message answered and the session cleared
AnswerAndClear(u, kind) ==
    /\ reply' = Reply(u, kind)
    /\ clear(u)
    /\ UNCHANGED <<ADMIN_IDS, admins, users>>
    /\ StoreUnchanged

\* a text an administrator sends for a user: the decimal telegram id n,
\* <<"id", n>>, or the username of the telegram user n, <<"username", n>>
IdText(n) == <<"id", n>>
UsernameText(n) == <<"username", n>>

\* SELECT telegram_id FROM users WHERE LOWER(username) = ?
find_user_by_username(us, username) == IF username[2] \in us THEN username[2] ELSE NULL

\* try: user_id = int(identifier)
\* except ValueError: user_id = db.find_user_by_username(identifier)
ResolveIdentifier(us, identifier) ==
    IF identifier[1] = "id" THEN identifier[2] ELSE find_user_by_username(us, identifier)

\* the command /start: INSERT OR REPLACE INTO users, then the greeting with
\* the menu; the FSM state is not touched
cmd_start(u) ==
    /\ users' = users \cup {u}
    /\ reply' = Reply(u, "menu")
    /\ UNCHANGED <<fsm_state, fsm_data, ADMIN_IDS, admins>>
    /\ StoreUnchanged

\* the handlers of "the user whose booking is cancelled / changed"
admin_select_user_booking(u, identifier, s, next) ==
    /\ fsm_state[u] = s
    /\ IF ~is_admin(u) THEN Revoked(u)
       ELSE IF ResolveIdentifier(users, identifier) = NULL THEN Answer(u, "user_not_found")
       ELSE IF get_user_bookings(bookings, ResolveIdentifier(users, identifier)) = {}
       THEN AnswerAndClear(u, "no_bookings")
       ELSE /\ fsm_data' = [fsm_data EXCEPT ![u].target_user_id = ResolveIdentifier(users, identifier)]
            /\ reply' = Reply(u, "bookings")
            /\ set_state(u, next)
            /\ UNCHANGED <<ADMIN_IDS, admins, users>>
            /\ StoreUnchanged

\* a message in AdminStates.waiting_for_user_identifier
admin_process_user_identifier(u, identifier) ==
    admin_select_user_booking(u, identifier, "AdminStates:waiting_for_user_identifier",
                              "AdminStates:selecting_user_booking")

\* a message in AdminStates.change_for_user_select
admin_change_for_user_select_booking(u, identifier) ==
    admin_select_user_booking(u, identifier, "AdminStates:change_for_user_select",
                              "AdminStates:change_for_user_date")

\* a message in AdminStates.booking_for_user_date
admin_book_for_user_get_user(u, identifier) ==
    /\ fsm_state[u] = "AdminStates:booking_for_user_date"
    /\ IF ~is_admin(u) THEN Revoked(u)
       ELSE IF ResolveIdentifier(users, identifier) = NULL THEN Answer(u, "user_not_found")
       ELSE /\ fsm_data' = [fsm_data EXCEPT ![u].target_user_id = ResolveIdentifier(users, identifier)]
            /\ reply' = Reply(u, "calendar")
            /\ UNCHANGED <<fsm_state, ADMIN_IDS, admins, users>>
            /\ StoreUnchanged

\* add_admin reporting success without a row in admins
add_admin_NotStored(adm, admin_id) == [ok |-> TRUE, admins |-> adm]

\* INSERT OR IGNORE INTO admins (telegram_id, added_by); return cursor.rowcount > 0
add_admin(adm, admin_id) == [ok |-> admin_id \notin adm, admins |-> adm \cup {admin_id}]

\* DELETE FROM admins WHERE telegram_id = ?; return cursor.rowcount > 0
remove_admin(adm, admin_id) ==
    IF admin_id = SUPER_ADMIN_ID THEN [ok |-> FALSE, admins |-> adm]
    ELSE [ok |-> admin_id \in adm, admins |-> adm \ {admin_id}]

\* a message in AdminStates.adding_admin
admin_add_admin_process(u, identifier) ==
    /\ fsm_state[u] = "AdminStates:adding_admin"
    /\ IF ~is_admin(u) THEN Revoked(u)
       ELSE IF ResolveIdentifier(users, identifier) = NULL THEN AnswerAndClear(u, "user_not_found")
       ELSE LET new_admin_id == ResolveIdentifier(users, identifier)
                success == add_admin(admins, new_admin_id)
            IN  /\ IF new_admin_id \in ADMIN_IDS
                   THEN reply' = Reply(u, "already_admin") /\ UNCHANGED <<ADMIN_IDS, admins>>
                   ELSE /\ admins' = success.admins
                        /\ IF success.ok
                           THEN reply' = Reply(u, "done") /\ ADMIN_IDS' = ADMIN_IDS \cup {new_admin_id}
                           ELSE reply' = Reply(u, "failed") /\ UNCHANGED ADMIN_IDS
                /\ clear(u)
                /\ UNCHANGED users
                /\ StoreUnchanged

\* a message in AdminStates.removing_admin
admin_remove_admin_process(u, identifier) ==
    /\ fsm_state[u] = "AdminStates:removing_admin"
    /\ IF ~is_admin(u) THEN Revoked(u)
       ELSE IF ResolveIdentifier(users, identifier) = NULL THEN AnswerAndClear(u, "user_not_found")
       ELSE LET remove_admin_id == ResolveIdentifier(users, identifier)
                success == remove_admin(admins, remove_admin_id)
            IN  /\ IF remove_admin_id = SUPER_ADMIN_ID
                   THEN reply' = Reply(u, "protected") /\ UNCHANGED <<ADMIN_IDS, admins>>
                   ELSE IF remove_admin_id \notin ADMIN_IDS
                   THEN reply' = Reply(u, "not_admin") /\ UNCHANGED <<ADMIN_IDS, admins>>
                   ELSE /\ admins' = success.admins
                        /\ IF success.ok
                           THEN reply' = Reply(u, "done") /\ ADMIN_IDS' = ADMIN_IDS \ {remove_admin_id}
                           ELSE reply' = Reply(u, "failed") /\ UNCHANGED ADMIN_IDS
                /\ clear(u)
                /\ UNCHANGED users
                /\ StoreUnchanged

\* a message in AdminStates.permanent_user_id
admin_permanent_get_user(u, identifier) ==
    /\ fsm_state[u] = "AdminStates:permanent_user_id"
    /\ IF ~is_admin(u) THEN Revoked(u)
       ELSE IF ResolveIdentifier(users, identifier) = NULL THEN Answer(u, "user_not_found")
       ELSE /\ fsm_data' = [fsm_data EXCEPT ![u].permanent_user_id = ResolveIdentifier(users, identifier)]
            /\ reply' = Reply(u, "prompt")
            /\ set_state(u, "AdminStates:permanent_place_id")
            /\ UNCHANGED <<ADMIN_IDS, admins, users>>
            /\ StoreUnchanged

\* a message in AdminStates.permanent_place_id: place_id is int(message.text)
admin_permanent_get_place(u, place_id) ==
    /\ fsm_state[u] = "AdminStates:permanent_place_id"
    /\ IF ~is_admin(u) THEN Revoked(u)
       ELSE IF place_id < 1 \/ place_id > TOTAL_PLACES THEN Answer(u, "bad_place")
       ELSE /\ fsm_data' = [fsm_data EXCEPT ![u].permanent_place_id = place_id]
            /\ reply' = Reply(u, "weekdays")
            /\ set_state(u, "AdminStates:permanent_days")
            /\ UNCHANGED <<ADMIN_IDS, admins, users>>
            /\ StoreUnchanged

\* selected.remove(day) / selected.append(day)
Toggle(selected, day) ==
    IF \E k \in 1..Len(selected) : selected[k] = day
    THEN SelectSeq(selected, LAMBDA x : x # day)
    ELSE Append(selected, day)

\* callback "weekday_<action>" in AdminStates.permanent_days
admin_permanent_toggle_day(u, action) ==
    LET selected == fsm_data[u].selected_weekdays
    IN  /\ fsm_state[u] = "AdminStates:permanent_days"
        /\ IF action = "confirm"
           THEN IF selected = <<>>
                THEN Answer(u, "choose_a_day")
                ELSE /\ reply' = Reply(u, "confirm")
                     /\ set_state(u, "AdminStates:permanent_confirm")
                     /\ UNCHANGED <<fsm_data, ADMIN_IDS, admins, users>>
                     /\ StoreUnchanged
           ELSE IF action = "cancel"
           THEN AnswerAndClear(u, "action_cancelled")
           ELSE /\ fsm_data' = [fsm_data EXCEPT ![u].selected_weekdays = Toggle(selected, IntOf(<<action>>))]
                /\ reply' = Reply(u, "weekdays")
                /\ UNCHANGED <<fsm_state, ADMIN_IDS, admins, users>>
                /\ StoreUnchanged

\* callback "permanent_create_confirm"
admin_permanent_create_confirm(u) ==
    IF ~is_admin(u) THEN NoRights(u)
    ELSE LET data == fsm_data[u]
             r == IF data.permanent_user_id = NULL \/ data.permanent_place_id = NULL
                  THEN [ok |-> FALSE, bk |-> bookings, pb |-> permanent_bookings]
                  ELSE create_permanent_booking(bookings, permanent_bookings, today, u,
                                                data.permanent_user_id, data.permanent_place_id,
                                                data.selected_weekdays)
         IN  /\ bookings' = r.bk
             /\ permanent_bookings' = r.pb
             /\ reply' = Reply(u, IF r.ok THEN "done" ELSE "failed")
             /\ clear(u)
             /\ UNCHANGED <<today, pc, req, raised, ADMIN_IDS, admins, users>>

\* callback "permanent_create_cancel"
admin_permanent_create_cancel(u) == AnswerAndClear(u, "action_cancelled")

\* get_permanent_bookings raises ValueError on a weekdays text that does not parse
RulesReadable(pb, us, user_id) ==
    \A i \in get_permanent_bookings(pb, us, user_id) :
        \A k \in 1..Len(ParseWeekdays(pb[i].weekdays)) : ParseWeekdays(pb[i].weekdays)[k] # -1

\* a message in AdminStates.delete_permanent_user
admin_delete_permanent_select(u, identifier) ==
    /\ fsm_state[u] = "AdminStates:delete_permanent_user"
    /\ IF ~is_admin(u) THEN Revoked(u)
       ELSE IF ResolveIdentifier(users, identifier) = NULL THEN AnswerAndClear(u, "user_not_found")
       ELSE IF ~RulesReadable(permanent_bookings, users, ResolveIdentifier(users, identifier))
       THEN UNCHANGED <<fsm_state, fsm_data, reply, ADMIN_IDS, admins, users>> /\ StoreUnchanged
       ELSE IF get_permanent_bookings(permanent_bookings, users,
                                      ResolveIdentifier(users, identifier)) = {}
       THEN AnswerAndClear(u, "no_rules")
       ELSE /\ reply' = Reply(u, "rules")
            /\ set_state(u, "AdminStates:delete_permanent_select")
            /\ UNCHANGED <<fsm_data, ADMIN_IDS, admins, users>>
            /\ StoreUnchanged

\* callback "delete_perm_<permanent_id>" in AdminStates.delete_permanent_select
admin_delete_permanent_confirm(u, permanent_id) ==
    /\ fsm_state[u] = "AdminStates:delete_permanent_select"
    /\ IF ~is_admin(u) THEN NoRights(u)
       ELSE LET r == delete_permanent_booking(bookings, permanent_bookings, today, permanent_id)
            IN  /\ bookings' = r.bk
                /\ permanent_bookings' = r.pb
                /\ reply' = Reply(u, IF r.ok THEN "done" ELSE "failed")
                /\ clear(u)
                /\ UNCHANGED <<today, pc, req, raised, ADMIN_IDS, admins, users>>

\* the texts and buttons an update can carry
Identifiers == {IdText(n) : n \in Users} \cup {UsernameText(n) : n \in Users}
AdminIdentifiers == Identifiers \cup {IdText(SUPER_ADMIN_ID), UsernameText(SUPER_ADMIN_ID)}
PlaceTexts == Places \cup {TOTAL_PLACES + 1}
WeekdayActions == {"confirm", "cancel"} \cup {StrDigit(d) : d \in 0..MaxWeekday}
PermanentIds(pb) == 1..(Len(pb) + 1)
AdminCallers == FlowCallers \cup {SUPER_ADMIN_ID}

\* the dispatcher hands the next update to its handler
Update == update_id < MaxUpdates /\ update_id' = update_id + 1

\* the updates of the ordinary users who talk to the bot; the super
\* administrator only edits the list of administrators
NextFlow ==
    \/ \E u \in FlowCallers : Update /\ cmd_start(u)
    \/ \E u \in FlowCallers : Update /\ start_booking(u)
    \/ \E u \in FlowCallers : Update /\ start_cancel(u)
    \/ \E u \in FlowCallers : Update /\ start_change(u)
    \/ \E u \in FlowCallers : Update /\ cancel_calendar(u)
    \/ \E u \in FlowCallers, d \in InputDates : Update /\ view_booking_details(u, d)
    \/ \E u \in FlowCallers, id \in BookingIds(bookings) : Update /\ confirm_cancel_from_details(u, id)
    \/ \E u \in FlowCallers, id \in BookingIds(bookings) : Update /\ confirm_change_from_details(u, id)
    \/ \E u \in FlowCallers, d \in InputDates : Update /\ process_date_selection(u, d)
    \/ \E u \in FlowCallers, p \in Places : Update /\ process_place_selection(u, p)
    \/ \E u \in FlowCallers : Update /\ confirm_action(u)
    \/ \E u \in FlowCallers : Update /\ cancel_action(u)
    \/ \E u \in FlowCallers : Update /\ change_selection(u)
    \/ \E u \in FlowCallers, id \in BookingIds(bookings) : Update /\ process_booking_action(u, id)
    \/ \E u \in FlowCallers : Update /\ admin_cancel_all_execute(u)
    \/ \E u \in FlowCallers : Update /\ admin_cancel_user_start(u)
    \/ \E u \in FlowCallers, t \in Identifiers : Update /\ admin_process_user_identifier(u, t)
    \/ \E u \in FlowCallers : Update /\ admin_book_for_user_start(u)
    \/ \E u \in FlowCallers, t \in Identifiers : Update /\ admin_book_for_user_get_user(u, t)
    \/ \E u \in FlowCallers : Update /\ admin_change_for_user_start(u)
    \/ \E u \in FlowCallers, t \in Identifiers : Update /\ admin_change_for_user_select_booking(u, t)
    \/ \E u \in AdminCallers : Update /\ admin_add_admin_start(u)
    \/ \E u \in AdminCallers, t \in AdminIdentifiers : Update /\ admin_add_admin_process(u, t)
    \/ \E u \in AdminCallers : Update /\ admin_remove_admin_start(u)
    \/ \E u \in AdminCallers, t \in AdminIdentifiers : Update /\ admin_remove_admin_process(u, t)
    \/ \E u \in FlowCallers : Update /\ admin_create_permanent_start(u)
    \/ \E u \in FlowCallers, t \in Identifiers : Update /\ admin_permanent_get_user(u, t)
    \/ \E u \in FlowCallers, p \in PlaceTexts : Update /\ admin_permanent_get_place(u, p)
    \/ \E u \in FlowCallers, a \in WeekdayActions : Update /\ admin_permanent_toggle_day(u, a)
    \/ \E u \in FlowCallers : Update /\ admin_permanent_create_confirm(u)
    \/ \E u \in FlowCallers : Update /\ admin_permanent_create_cancel(u)
    \/ \E u \in FlowCallers : Update /\ admin_delete_permanent_start(u)
    \/ \E u \in FlowCallers, t \in Identifiers : Update /\ admin_delete_permanent_select(u, t)
    \/ \E u \in FlowCallers, id \in PermanentIds(permanent_bookings) : Update /\ admin_delete_permanent_confirm(u, id)

RECURSIVE BookedOut(_, _, _)
\* an administrator has booked the seats place_id..TOTAL_PLACES of the date
\* for the last user, one create_booking_for_user after the other
BookedOut(bk, place_id, date) ==
    IF place_id > TOTAL_PLACES THEN bk
    ELSE BookedOut(create_booking_for_user(bk, SUPER_ADMIN_ID, MaxUser, place_id, date).bk,
                   place_id + 1, date)

\* the tables survive a restart of the bot, the sessions (MemoryStorage())
\* do not: the store of a start is empty or holds what one earlier
\* confirmation wrote; users holds the super administrator and the user of
\* the rows
InitStores ==
    {[bk |-> <<>>, pb |-> <<>>, users |-> {SUPER_ADMIN_ID}]}
    \cup {[bk |-> create_booking(<<>>, t, 1, strftime(0)).bk, pb |-> <<>>,
            users |-> {SUPER_ADMIN_ID, t}] : t \in Users}
    \cup {[bk |-> create_permanent_booking(<<>>, <<>>, 0, SUPER_ADMIN_ID, t, 1, <<0>>).bk,
            pb |-> create_permanent_booking(<<>>, <<>>, 0, SUPER_ADMIN_ID, t, 1, <<0>>).pb,
            users |-> {SUPER_ADMIN_ID, t}] : t \in Users}

\* ADMIN_IDS = db.get_all_admins(): the super administrator and whoever was
\* added before the start
InitFlow ==
    /\ \E s \in InitStores : bookings = s.bk /\ permanent_bookings = s.pb /\ users = s.users
    /\ today = 0
    /\ pc = [u \in Users |-> "idle"]
    /\ req = [u \in Users |-> IdleReq]
    /\ raised = FALSE
    /\ admins \in {{SUPER_ADMIN_ID} \cup A : A \in SUBSET FlowCallers}
    /\ ADMIN_IDS = admins
    /\ fsm_state = [u \in FlowUsers |-> "None"]
    /\ fsm_data = [u \in FlowUsers |-> EmptyData]
    /\ reply = Reply(NULL, "none")
    /\ update_id = 0

SpecFlow == InitFlow /\ [][NextFlow]_vars

\* a start of the bot as in InitFlow, the first day possibly booked out
InitBookedOut ==
    /\ \E s \in InitStores \cup {[bk |-> BookedOut(<<>>, 1, strftime(0)), pb |-> <<>>,
                                  users |-> {SUPER_ADMIN_ID, MaxUser}]} :
          bookings = s.bk /\ permanent_bookings = s.pb /\ users = s.users
    /\ today = 0
    /\ pc = [u \in Users |-> "idle"]
    /\ req = [u \in Users |-> IdleReq]
    /\ raised = FALSE
    /\ admins \in {{SUPER_ADMIN_ID} \cup A : A \in SUBSET FlowCallers}
    /\ ADMIN_IDS = admins
    /\ fsm_state = [u \in FlowUsers |-> "None"]
    /\ fsm_data = [u \in FlowUsers |-> EmptyData]
    /\ reply = Reply(NULL, "none")
    /\ update_id = 0

SpecBookedOut == InitBookedOut /\ [][NextFlow]_vars

(***************************************************************************)
(* Persistence errors: a cursor.execute of a Database method raises        *)
(* sqlite3.Error (disk I/O error, database is locked, database or disk is  *)
(* full).  get_connection returns the sqlite3 connection itself, so the    *)
(* block "with self.get_connection() as conn" commits when it is left by a *)
(* return and rolls back when it is left by an exception.                  *)
(***************************************************************************)
\* the last loop index of create_permanent_booking at which an error is injected
MaxFailAt == 7

\* the statements of a method at which an error is injected
CreateSteps == {"select_user", "select_place", "insert"}

DeleteSteps == {"update", "select"}

RECURSIVE ExpandUntil(_, _, _, _, _, _, _, _)
\* the loop "for i in range(60)" from index i on, left at index stop
ExpandUntil(bk, i, stop, now, user_id, place_id, weekdays, permanent_id) ==
    IF i >= stop THEN bk
    ELSE LET check_date == now + i
             date_str == strftime(check_date)
         IN  IF (\E d \in 1..Len(weekdays) : weekdays[d] = weekday(check_date))
                /\ CountPlaceActive(bk, place_id, date_str) = 0
             THEN ExpandUntil(Append(bk, BookingRow(user_id, place_id, date_str,
                                                    "permanent", permanent_id)),
                              i + 1, stop, now, user_id, place_id, weekdays, permanent_id)
             ELSE ExpandUntil(bk, i + 1, stop, now, user_id, place_id, weekdays, permanent_id)

\* create_permanent_booking when a statement of loop index fail_at raises:
\* "except Exception: return False" leaves the with block by a return, so the
\* rule row and the rows of the earlier indexes are committed; when that
\* commit fails too, the connection rolls back and the error leaves the method
create_permanent_booking_failing(bk, pb, now, admin_id, user_id, place_id, weekdays, fail_at, committed) ==
    IF CheckExisting(pb, 1, place_id, weekdays) # "ok" \/ HasUserPlaceRule(pb, user_id, place_id)
    THEN [ok |-> FALSE, raised |-> FALSE, bk |-> bk, pb |-> pb]
    ELSE IF committed
    THEN LET pb2 == Append(pb, PermanentRow(user_id, place_id, weekdays, admin_id))
         IN  [ok |-> FALSE, raised |-> FALSE, pb |-> pb2,
              bk |-> ExpandUntil(bk, 0, fail_at, now, user_id, place_id, weekdays, Len(pb2))]
    ELSE [ok |-> FALSE, raised |-> TRUE, bk |-> bk, pb |-> pb]

\* create_booking when statement at raises: the two SELECTs stand outside
\* the try, the INSERT inside "try ... except: return False"
create_booking_failing(bk, user_id, place_id, date, at) ==
    IF at = "select_user" THEN [ok |-> FALSE, raised |-> TRUE, bk |-> bk]
    ELSE IF CountUserActive(bk, user_id, date) > 0 THEN [ok |-> FALSE, raised |-> FALSE, bk |-> bk]
    ELSE IF at = "select_place" THEN [ok |-> FALSE, raised |-> TRUE, bk |-> bk]
    ELSE [ok |-> FALSE, raised |-> FALSE, bk |-> bk]

\* cancel_booking when its UPDATE raises: the method has no try
cancel_booking_failing(bk, booking_id, user_id) ==
    [ok |-> FALSE, raised |-> TRUE, bk |-> bk]

\* get_available_places when one of its SELECTs raises: the method has no try
get_available_places_failing(bk, pb, date) ==
    [places |-> <<>>, raised |-> TRUE]

\* delete_permanent_booking when statement at raises: "except Exception:
\* return False" leaves the with block by a return, which commits the UPDATE
\* of the rule when the error came after it
delete_permanent_booking_failing(bk, pb, now, permanent_id, at, committed) ==
    IF at = "update" THEN [ok |-> FALSE, raised |-> FALSE, bk |-> bk, pb |-> pb]
    ELSE IF committed
    THEN [ok |-> FALSE, raised |-> FALSE, bk |-> bk,
          pb |-> SetDeleted(pb, {permanent_id} \cap (1..Len(pb)))]
    ELSE [ok |-> FALSE, raised |-> TRUE, bk |-> bk, pb |-> pb]

\* admin_permanent_create_confirm, an error in the expansion loop
PermanentCreateFault(u, p, w, fail_at, committed) ==
    /\ RoomForRule
    /\ \E d \in 1..Len(w) : w[d] = weekday(today + fail_at)
    /\ LET r == create_permanent_booking_failing(bookings, permanent_bookings, today,
                                                 SUPER_ADMIN_ID, u, p, w, fail_at, committed)
       IN  /\ bookings' = r.bk
           /\ permanent_bookings' = r.pb
           /\ raised' = (raised \/ r.raised)
    /\ UNCHANGED <<today, pc, req>>
    /\ UNCHANGED session

\* confirm_action, state BookingStates:confirming_booking, an error in create_booking
ConfirmBookingFault(u, p, d, at) ==
    /\ LET r == create_booking_failing(bookings, u, p, d, at)
       IN  /\ bookings' = r.bk
           /\ raised' = (raised \/ r.raised)
    /\ UNCHANGED <<permanent_bookings, today, pc, req>>
    /\ UNCHANGED session

\* process_booking_action, state CancelStates:selecting_booking, an error in cancel_booking
SelfCancelFault(u, id) ==
    /\ get_booking_by_id(bookings, id) # <<>>
    /\ LET c == cancel_booking_failing(bookings, id, u)
       IN  /\ bookings' = c.bk
           /\ raised' = (raised \/ c.raised)
    /\ UNCHANGED <<permanent_bookings, today, pc, req>>
    /\ UNCHANGED session

\* process_date_selection, an error in get_available_places
AvailabilityFault(d) ==
    /\ raised' = (raised \/ get_available_places_failing(bookings, permanent_bookings, d).raised)
    /\ UNCHANGED <<bookings, permanent_bookings, today, pc, req>>
    /\ UNCHANGED session

\* admin_delete_permanent_confirm, an error in delete_permanent_booking
DeletePermanentFault(id, at, committed) ==
    /\ LET r == delete_permanent_booking_failing(bookings, permanent_bookings, today, id,
                                                 at, committed)
       IN  /\ bookings' = r.bk
           /\ permanent_bookings' = r.pb
           /\ raised' = (raised \/ r.raised)
    /\ UNCHANGED <<today, pc, req>>
    /\ UNCHANGED session

NextFault ==
    \/ \E u \in Users, p \in Places, d \in InputDates : ConfirmBooking(u, p, d)
    \/ \E u \in Users, id \in BookingIds(bookings) : SelfCancel(u, id)
    \/ \E id \in BookingIds(bookings) : AdminCancel(id)
    \/ \E u \in Users, p \in Places, w \in WeekdayLists : PermanentCreateConfirm(u, p, w)
    \/ \E id \in 1..Len(permanent_bookings) : DeletePermanentConfirm(id)
    \/ Midnight
    \/ \E u \in Users, p \in Places, w \in WeekdayLists, fail_at \in 0..MaxFailAt,
          committed \in BOOLEAN : PermanentCreateFault(u, p, w, fail_at, committed)
    \/ \E u \in Users, p \in Places, d \in InputDates, at \in CreateSteps :
          ConfirmBookingFault(u, p, d, at)
    \/ \E u \in Users, id \in BookingIds(bookings) : SelfCancelFault(u, id)
    \/ \E d \in InputDates : AvailabilityFault(d)
    \/ \E id \in 1..Len(permanent_bookings), at \in DeleteSteps, committed \in BOOLEAN :
          DeletePermanentFault(id, at, committed)

SpecFault == Init /\ [][NextFault]_vars

(***************************************************************************)
(* Vocabulary of the properties                                            *)
(***************************************************************************)
\* every date a row can carry, and the week after the last of them
AllDates == {strftime(n) : n \in 0..(MaxToday + HORIZON_DAYS + 6)}

Active(bk) == {i \in 1..Len(bk) : bk[i].status = "active"}

ActiveRules(pb) == {i \in 1..Len(pb) : pb[i].status = "active"}

\* the elements of a list
Elems(list) == {list[i] : i \in 1..Len(list)}

\* the active rows of a table, as a set
ActiveRows(bk) == {bk[i] : i \in Active(bk)}

\* rule r names the weekday of the date
Covers(pb, r, date) == weekday(strptime(date)) \in Elems(ParseWeekdays(pb[r].weekdays))

\* the dates rule r was expanded on are those of the rows carrying its id
InstancesOf(bk, r) == {i \in 1..Len(bk) : bk[i].permanent_booking_id = r}

(***************************************************************************)
(* C1: in every reachable state each (seat, date) pair has at most one     *)
(* active booking.                                                         *)
(***************************************************************************)
C1_OneActivePerSeatDate ==
    \A i, j \in Active(bookings) :
        (bookings[i].place_id = bookings[j].place_id
         /\ bookings[i].booking_date = bookings[j].booking_date) => i = j

\* a rule was expanded around a seat somebody held: the regular booking is
\* the only active row of its (seat, date) although the rule names the weekday
C1_Witness ==
    \E r \in ActiveRules(permanent_bookings) : \E i \in Active(bookings) :
        /\ bookings[i].booking_type = "regular"
        /\ bookings[i].place_id = permanent_bookings[r].place_id
        /\ Covers(permanent_bookings, r, bookings[i].booking_date)
        /\ i < Len(bookings)
        /\ InstancesOf(bookings, r) # {}
        /\ \A k \in InstancesOf(bookings, r) : k > i

(***************************************************************************)
(* C2: two users, neither holding a booking on the date, confirm a booking *)
(* of the same free (seat, date) in interleaved handlers: once all such    *)
(* handlers have called create_booking exactly one of them got True and    *)
(* the (seat, date) has exactly one active booking.                        *)
(***************************************************************************)
\* the users whose handler asked for (p, d)
Callers(p, d) == {u \in Users : pc[u] # "idle" /\ req[u].place = p /\ req[u].date = d}

\* the table before any of the handlers ran: they only append rows
StoreBefore ==
    SubSeq(bookings, 1,
           Len(bookings) - Cardinality({u \in Users : pc[u] \in {"answer", "done"} /\ req[u].ok}))

C2_ExactlyOneWins ==
    \A p \in Places, d \in InputDates :
        (/\ Cardinality(Callers(p, d)) >= 2
         /\ \A u \in Callers(p, d) : pc[u] \in {"answer", "done"}
         /\ \A u \in Callers(p, d) : ~has_user_booking_on_date(StoreBefore, u, d)
         /\ CountPlaceActive(StoreBefore, p, d) = 0)
        => /\ Cardinality({u \in Callers(p, d) : req[u].ok}) = 1
           /\ Cardinality({i \in Active(bookings) :
                             bookings[i].place_id = p /\ bookings[i].booking_date = d}) = 1

\* both handlers of a race are over: one was told True, the other False
C2_Witness ==
    \E u, v \in Users :
        /\ u # v
        /\ pc[u] = "done" /\ pc[v] = "done"
        /\ req[u].place = req[v].place /\ req[u].date = req[v].date
        /\ req[u].ok /\ ~req[v].ok
        /\ ~has_user_booking_on_date(StoreBefore, v, req[v].date)

(***************************************************************************)
(* C3: in every reachable state each (user, date) pair has at most one     *)
(* active booking of origin regular.                                       *)
(***************************************************************************)
C3_OneRegularPerUserDate ==
    \A i, j \in Active(bookings) :
        (/\ bookings[i].booking_type = "regular" /\ bookings[j].booking_type = "regular"
         /\ bookings[i].user_id = bookings[j].user_id
         /\ bookings[i].booking_date = bookings[j].booking_date) => i = j

\* C3 as amended: the self path never adds a second active booking of a user
\* on a date: a row inserted by the self-book or self-change confirmation is
\* afterwards its user's only active booking on its date
C3_SelfPathKeepsOnePerUserDate ==
    [][\A u \in Users, p \in Places, d \in InputDates :
          (/\ Len(bookings') = Len(bookings) + 1
           /\ ConfirmBooking(u, p, d) \/ \E old \in BookingIds(bookings) : ConfirmChange(u, old, p, d))
          => {i \in Active(bookings') : bookings'[i].user_id = u /\ bookings'[i].booking_date = d}
                = {Len(bookings')}]_vars

\* a user with an active regular booking on a date was refused nothing else:
\* the table holds the user's cancelled and the user's active regular row of one date
C3_Witness ==
    \E i, j \in 1..Len(bookings) :
        /\ i < j
        /\ bookings[i].booking_type = "regular" /\ bookings[j].booking_type = "regular"
        /\ bookings[i].user_id = bookings[j].user_id
        /\ bookings[i].booking_date = bookings[j].booking_date
        /\ bookings[i].status = "cancelled" /\ bookings[j].status = "active"
        /\ bookings[i].place_id # bookings[j].place_id

(***************************************************************************)
(* C4: for every date, get_available_places(date) lists no seat that has   *)
(* an active booking on that date; so a seat just booked is not offered.   *)
(***************************************************************************)
C4_AvailableExcludesBooked ==
    \A i \in Active(bookings) :
        bookings[i].place_id \notin
            Elems(get_available_places(bookings, permanent_bookings, bookings[i].booking_date))

\* a booking made by create_booking is active and its seat is missing from
\* the list, which still offers other seats
C4_Witness ==
    \E i \in Active(bookings) :
        /\ bookings[i].booking_type = "regular"
        /\ bookings[i].place_id \notin
              Elems(get_available_places(bookings, permanent_bookings, bookings[i].booking_date))
        /\ Len(get_available_places(bookings, permanent_bookings, bookings[i].booking_date))
              = TOTAL_PLACES - 1

(***************************************************************************)
(* C5: when a cancel handler cancels an active booking on (seat, date),    *)
(* get_available_places(date) lists the seat again.                        *)
(***************************************************************************)
\* a cancel handler turned row id from active to cancelled in this step
CancelledNow(id) ==
    /\ bookings[id].status = "active"
    /\ bookings'[id].status = "cancelled"
    /\ AdminCancel(id) \/ \E u \in Users : SelfCancel(u, id)

C5_CancelRestoresSeat ==
    [][\A id \in 1..Len(bookings) :
          CancelledNow(id)
          => bookings[id].place_id \in
                Elems(get_available_places(bookings', permanent_bookings', bookings[id].booking_date))]_vars

\* an active rule on the seat names the weekday of the date
RuleCovers(pb, place_id, date) ==
    \E r \in ActiveRules(pb) : pb[r].place_id = place_id /\ Covers(pb, r, date)

\* C5 as amended: the seat is listed again when the cancelled booking is an
\* instance of a rule, or when no active rule on the seat names the weekday
\* of the date; a cancelled regular booking on a seat an active rule holds
\* on that weekday need not bring the seat back
C5_CancelRestoresSeatUnlessRuled ==
    [][\A id \in 1..Len(bookings) :
          (/\ CancelledNow(id)
           /\ \/ bookings[id].booking_type = "permanent"
              \/ ~RuleCovers(permanent_bookings', bookings[id].place_id, bookings[id].booking_date))
          => bookings[id].place_id \in
                Elems(get_available_places(bookings', permanent_bookings', bookings[id].booking_date))]_vars

\* a cancelled permanent row is the only row of its (seat, date), its rule is
\* active, and the seat is listed on the date
C5_Witness ==
    \E i \in 1..Len(bookings) :
        /\ bookings[i].status = "cancelled"
        /\ bookings[i].booking_type = "permanent"
        /\ bookings[i].permanent_booking_id \in ActiveRules(permanent_bookings)
        /\ \A j \in 1..Len(bookings) :
              (bookings[j].place_id = bookings[i].place_id
               /\ bookings[j].booking_date = bookings[i].booking_date) => j = i
        /\ bookings[i].place_id \in
              Elems(get_available_places(bookings, permanent_bookings, bookings[i].booking_date))

(***************************************************************************)
(* C6: cancelling one active instance of an active rule makes its seat     *)
(* listed on its date only: on every other date the list is what it was,   *)
(* so the seat is still absent on the other dates of the rule, and the     *)
(* rule stays active.                                                      *)
(***************************************************************************)
C6_InstanceCancelIsLocal ==
    [][\A id \in 1..Len(bookings) :
          (/\ CancelledNow(id)
           /\ bookings[id].booking_type = "permanent"
           /\ bookings[id].permanent_booking_id \in ActiveRules(permanent_bookings))
          => /\ bookings[id].place_id \in
                   Elems(get_available_places(bookings', permanent_bookings', bookings[id].booking_date))
             /\ permanent_bookings' = permanent_bookings
             /\ \A d \in AllDates \ {bookings[id].booking_date} :
                   /\ get_available_places(bookings', permanent_bookings', d)
                         = get_available_places(bookings, permanent_bookings, d)
                   /\ (/\ Covers(permanent_bookings, bookings[id].permanent_booking_id, d)
                       /\ bookings[id].place_id \notin
                             Elems(get_available_places(bookings, permanent_bookings, d)))
                      => bookings[id].place_id \notin
                             Elems(get_available_places(bookings', permanent_bookings', d))]_vars

\* one instance of an active rule is cancelled and its seat listed on its
\* date, while on the date a week later the instance is active and the seat
\* not listed
C6_Witness ==
    \E i, j \in 1..Len(bookings) :
        /\ bookings[i].booking_type = "permanent" /\ bookings[i].status = "cancelled"
        /\ bookings[j].booking_type = "permanent" /\ bookings[j].status = "active"
        /\ bookings[i].permanent_booking_id = bookings[j].permanent_booking_id
        /\ bookings[i].permanent_booking_id \in ActiveRules(permanent_bookings)
        /\ strptime(bookings[j].booking_date) = strptime(bookings[i].booking_date) + 7
        /\ bookings[i].place_id \in
              Elems(get_available_places(bookings, permanent_bookings, bookings[i].booking_date))
        /\ bookings[j].place_id \notin
              Elems(get_available_places(bookings, permanent_bookings, bookings[j].booking_date))

(***************************************************************************)
(* C7: get_available_places(date) lists the seat of an active rule that    *)
(* names the weekday of the date only when a cancelled permanent booking   *)
(* carrying that rule's id exists for (seat, date).                        *)
(***************************************************************************)
C7_OverrideCarriesRuleId ==
    \A d \in AllDates : \A r \in ActiveRules(permanent_bookings) :
        (/\ Covers(permanent_bookings, r, d)
         /\ permanent_bookings[r].place_id \in
               Elems(get_available_places(bookings, permanent_bookings, d)))
        => \E k \in 1..Len(bookings) :
              /\ bookings[k].place_id = permanent_bookings[r].place_id
              /\ bookings[k].booking_date = d
              /\ bookings[k].booking_type = "permanent"
              /\ bookings[k].status = "cancelled"
              /\ bookings[k].permanent_booking_id = r

(***************************************************************************)
(* C8: delete_permanent_booking(id) marks the rule deleted and cancels     *)
(* every active permanent booking carrying the id whose date is today or   *)
(* later; every booking of the rule dated before today keeps its status.   *)
(***************************************************************************)
\* calendar order of two date texts, by year, month, day
OnOrAfter(a, b) ==
    \/ a[3] > b[3]
    \/ a[3] = b[3] /\ a[2] > b[2]
    \/ a[3] = b[3] /\ a[2] = b[2] /\ a[1] >= b[1]

C8_DeleteCancelsFutureOnly ==
    [][\A id \in 1..Len(permanent_bookings) :
          (/\ Len(bookings') = Len(bookings) /\ Len(permanent_bookings') = Len(permanent_bookings)
           /\ DeletePermanentConfirm(id))
          => /\ permanent_bookings'[id].status = "deleted"
             /\ \A i \in InstancesOf(bookings, id) :
                   IF bookings[i].status = "active" /\ OnOrAfter(bookings[i].booking_date, strftime(today))
                   THEN bookings'[i].status = "cancelled"
                   ELSE bookings'[i].status = bookings[i].status]_vars

\* a deleted rule with an active instance dated before today and a cancelled
\* instance dated later
C8_Witness ==
    \E r \in 1..Len(permanent_bookings) : \E i, j \in InstancesOf(bookings, r) :
        /\ permanent_bookings[r].status = "deleted"
        /\ bookings[i].status = "active" /\ strptime(bookings[i].booking_date) < today
        /\ bookings[j].status = "cancelled" /\ strptime(bookings[j].booking_date) >= today

(***************************************************************************)
(* C9: running create_permanent_booking a second time with the same user,  *)
(* seat and weekdays leaves the set of active bookings the first run left, *)
(* and no (seat, date) has two active bookings.                            *)
(***************************************************************************)
C9_SecondRunChangesNothing ==
    \A u \in Users, p \in Places, w \in WeekdayLists :
        LET r1 == create_permanent_booking(bookings, permanent_bookings, today, SUPER_ADMIN_ID, u, p, w)
            r2 == create_permanent_booking(r1.bk, r1.pb, today, SUPER_ADMIN_ID, u, p, w)
        IN  /\ ActiveRows(r2.bk) = ActiveRows(r1.bk)
            /\ Cardinality(Active(r2.bk)) = Cardinality(Active(r1.bk))
            /\ \A i, j \in Active(r2.bk) :
                  (r2.bk[i].place_id = r2.bk[j].place_id
                   /\ r2.bk[i].booking_date = r2.bk[j].booking_date) => i = j

\* a rule was created and expanded, and creating it again is refused and
\* leaves the table as it is
C9_Witness ==
    \E r \in ActiveRules(permanent_bookings) :
        /\ \E i \in InstancesOf(bookings, r) : bookings[i].status = "active"
        /\ LET again == create_permanent_booking(bookings, permanent_bookings, today, SUPER_ADMIN_ID,
                                                 permanent_bookings[r].user_id,
                                                 permanent_bookings[r].place_id,
                                                 ParseWeekdays(permanent_bookings[r].weekdays))
           IN  ~again.ok /\ again.bk = bookings /\ again.pb = permanent_bookings

(***************************************************************************)
(* C10: create_permanent_booking never overwrites a booking: every row     *)
(* present before is unchanged, no instance is inserted on a date on which *)
(* the seat had an active booking, and such bookings do not make the       *)
(* creation fail.                                                          *)
(***************************************************************************)
C10_ExpansionFillsGapsOnly ==
    \A u \in Users, p \in Places, w \in WeekdayLists :
        LET r == create_permanent_booking(bookings, permanent_bookings, today, SUPER_ADMIN_ID, u, p, w)
            empty == create_permanent_booking(<<>>, permanent_bookings, today, SUPER_ADMIN_ID, u, p, w)
        IN  /\ r.ok = empty.ok
            /\ Len(r.bk) >= Len(bookings)
            /\ \A i \in 1..Len(bookings) : r.bk[i] = bookings[i]
            /\ \A i \in Active(bookings) : \A k \in (Len(bookings) + 1)..Len(r.bk) :
                  bookings[i].place_id = p => r.bk[k].booking_date # bookings[i].booking_date

\* a rule of one user was expanded around the active regular booking another
\* user holds on the seat on a weekday of the rule: the booking is as it was
\* and the rule has instances on other dates only
C10_Witness ==
    \E r \in ActiveRules(permanent_bookings) : \E i \in Active(bookings) :
        /\ bookings[i].booking_type = "regular"
        /\ bookings[i].user_id # permanent_bookings[r].user_id
        /\ bookings[i].place_id = permanent_bookings[r].place_id
        /\ Covers(permanent_bookings, r, bookings[i].booking_date)
        /\ InstancesOf(bookings, r) # {}
        /\ \A k \in InstancesOf(bookings, r) :
              k > i /\ bookings[k].booking_date # bookings[i].booking_date

(***************************************************************************)
(* C11: in every reachable state no two active rules on one seat share a   *)
(* weekday and each (user, seat) pair has at most one active rule; a       *)
(* create_permanent_booking that would break either condition returns      *)
(* False and leaves permanent_bookings and bookings as they were.          *)
(***************************************************************************)
\* the weekdays a stored rule names
DaysOf(pb, r) == Elems(ParseWeekdays(pb[r].weekdays))

Blocked(bk, old, p, d, user_ids) ==
    \E k \in Active(bk) \ {old} :
        /\ bk[k].booking_date = d
        /\ bk[k].place_id = p \/ bk[k].user_id \in user_ids

SelfStep(u) ==
    \/ \E p \in Places, d \in InputDates : ConfirmBooking(u, p, d)
    \/ \E old \in BookingIds(bookings), p \in Places, d \in InputDates : ConfirmChange(u, old, p, d)
    \/ \E id \in BookingIds(bookings) : SelfCancel(u, id)

C13_SelfPathTouchesOwnOnly ==
    [][/\ \A u \in Users, id \in BookingIds(bookings) :
             (id \in 1..Len(bookings) => bookings[id].user_id # u)
             => cancel_booking(bookings, id, u) = [ok |-> FALSE, bk |-> bookings]
       /\ \A u \in Users :
             (/\ permanent_bookings' = permanent_bookings /\ today' = today
              /\ SelfStep(u))
             => \A i \in 1..Len(bookings) :
                   bookings[i].user_id # u => bookings'[i] = bookings[i]]_vars

\* a user cancelled a booking of their own, and their cancel_booking of the
\* active booking another user holds is refused
C13_Witness ==
    \E i \in Active(bookings) : \E j \in 1..Len(bookings) :
        /\ bookings[j].status = "cancelled"
        /\ bookings[j].user_id # bookings[i].user_id
        /\ bookings[i].booking_type = "regular" /\ bookings[j].booking_type = "regular"
        /\ ~cancel_booking(bookings, i, bookings[j].user_id).ok

(***************************************************************************)
(* C14: cancel_booking and cancel_booking_admin on an id of no row or of   *)
(* a cancelled row return False and change nothing; cancelling one booking *)
(* twice returns True then False; no row other than the targeted one       *)
(* changes.                                                                *)
(***************************************************************************)
\* res is a refusal that left bk as it was
Refused(res, bk) == ~res.ok /\ res.bk = bk

\* res differs from bk in the status of row id at most
OnlyRow(res, bk, id) ==
    /\ Len(res.bk) = Len(bk)
    /\ \A i \in 1..Len(bk) : i # id => res.bk[i] = bk[i]

C14_CancelOnceOnly ==
    \A id \in BookingIds(bookings) :
        LET a == cancel_booking_admin(bookings, id)
        IN  /\ OnlyRow(a, bookings, id)
            /\ IF id \in Active(bookings)
               THEN a.ok /\ a.bk[id].status = "cancelled"
                    /\ Refused(cancel_booking_admin(a.bk, id), a.bk)
               ELSE Refused(a, bookings)
            /\ \A u \in Users :
                  LET c == cancel_booking(bookings, id, u)
                  IN  /\ OnlyRow(c, bookings, id)
                      /\ IF id \in Active(bookings) /\ bookings[id].user_id = u
                         THEN c.ok /\ c.bk[id].status = "cancelled"
                              /\ Refused(cancel_booking(c.bk, id, u), c.bk)
                              /\ Refused(cancel_booking_admin(c.bk, id), c.bk)
                         ELSE Refused(c, bookings)

\* a booking was cancelled while another one is active: cancelling the
\* cancelled one again is refused for its owner and for the administrator
C14_Witness ==
    \E i \in BookingIds(bookings) \cap (1..Len(bookings)) : \E k \in Active(bookings) :
        /\ bookings[i].status = "cancelled"
        /\ bookings[i].booking_type = "regular"
        /\ Refused(cancel_booking(bookings, i, bookings[i].user_id), bookings)
        /\ Refused(cancel_booking_admin(bookings, i), bookings)
        /\ cancel_booking_admin(bookings, k).ok

(***************************************************************************)
(* C15: create_booking fails when the user has an active booking on the    *)
(* date or the seat has one; create_booking_for_user makes no per-user     *)
(* check: it succeeds whenever the seat has no active booking on the date, *)
(* also when the target user holds an active booking that date.            *)
(***************************************************************************)
UserHolds(bk, u, d) == \E i \in Active(bk) : bk[i].user_id = u /\ bk[i].booking_date = d

SeatTaken(bk, p, d) == \E i \in Active(bk) : bk[i].place_id = p /\ bk[i].booking_date = d

C15_AdminPathSkipsUserCheck ==
    \A u \in Users, p \in Places, d \in InputDates :
        LET self == create_booking(bookings, u, p, d)
            onBehalf == create_booking_for_user(bookings, SUPER_ADMIN_ID, u, p, d)
        IN  /\ (UserHolds(bookings, u, d) \/ SeatTaken(bookings, p, d)) => Refused(self, bookings)
            /\ IF SeatTaken(bookings, p, d)
               THEN Refused(onBehalf, bookings)
               ELSE /\ onBehalf.ok
                    /\ onBehalf.bk = Append(bookings, BookingRow(u, p, d, "regular", NULL))

\* an administrator gave a user a second seat on a date: the user holds two
\* active regular bookings on it, and the user's own create_booking of a
\* free seat of that date is refused
C15_Witness ==
    \E i, j \in Active(bookings) :
        /\ i < j
        /\ bookings[i].user_id = bookings[j].user_id
        /\ bookings[i].booking_date = bookings[j].booking_date
        /\ bookings[i].booking_type = "regular" /\ bookings[j].booking_type = "regular"
        /\ \E p \in 1..TOTAL_PLACES :
              /\ ~SeatTaken(bookings, p, bookings[i].booking_date)
              /\ ~create_booking(bookings, bookings[i].user_id, p, bookings[i].booking_date).ok

(***************************************************************************)
(* C16: bookings of origin permanent are exempt from the per-user-per-date *)
(* cap: a user whose only active booking on a date is an instance of a     *)
(* rule is not blocked from booking a free seat on that date, neither by   *)
(* has_user_booking_on_date at the choose-date step nor by create_booking. *)
(***************************************************************************)
C16_PermanentExemptFromCap ==
    \A u \in Users, d \in InputDates :
        (/\ UserHolds(bookings, u, d)
         /\ \A i \in Active(bookings) :
               (bookings[i].user_id = u /\ bookings[i].booking_date = d)
               => bookings[i].booking_type = "permanent")
        => /\ ~has_user_booking_on_date(bookings, u, d)
           /\ \A p \in Elems(get_available_places(bookings, permanent_bookings, d)) :
                 create_booking(bookings, u, p, d).ok

(***************************************************************************)
(* Vocabulary of the conversation properties                               *)
(***************************************************************************)
\* the states of the administrator flows that act on the store
AdminFlowStates ==
    {"AdminStates:booking_for_user_date", "AdminStates:booking_for_user_place",
     "AdminStates:booking_for_user_confirm",
     "AdminStates:change_for_user_select", "AdminStates:change_for_user_date",
     "AdminStates:change_for_user_place", "AdminStates:change_for_user_confirm",
     "AdminStates:waiting_for_user_identifier", "AdminStates:selecting_user_booking",
     "AdminStates:permanent_user_id", "AdminStates:permanent_place_id",
     "AdminStates:permanent_days", "AdminStates:permanent_confirm",
     "AdminStates:delete_permanent_user", "AdminStates:delete_permanent_select"}

\* a date, a seat, a booking, a weekday button or a confirmation sent by u
FlowStep(u) ==
    \/ \E d \in InputDates : process_date_selection(u, d)
    \/ \E p \in Places : process_place_selection(u, p)
    \/ \E id \in BookingIds(bookings) : process_booking_action(u, id)
    \/ \E a \in WeekdayActions : admin_permanent_toggle_day(u, a)
    \/ confirm_action(u)
    \/ admin_permanent_create_confirm(u)
    \/ \E id \in PermanentIds(permanent_bookings) : admin_delete_permanent_confirm(u, id)

(***************************************************************************)
(* C17: the privilege is checked again at every step of an administrator   *)
(* flow: when the caller is inside an administrator flow and is no longer  *)
(* in the list of administrators, the next step the caller sends (a date,  *)
(* a seat, a booking, a weekday button or a confirmation) leaves both      *)
(* tables as they were.                                                    *)
(***************************************************************************)
C17_RevokedStepChangesNothing ==
    [][\A u \in FlowCallers :
          (fsm_state[u] \in AdminFlowStates /\ ~is_admin(u) /\ FlowStep(u))
          => (bookings' = bookings /\ permanent_bookings' = permanent_bookings)]_vars

\* every state of AdminStates the model sets
AllAdminStates == AdminFlowStates \cup {"AdminStates:adding_admin", "AdminStates:removing_admin"}

\* u presses the button that opens an administrator flow
AdminEntry(u) ==
    \/ admin_cancel_user_start(u)
    \/ admin_book_for_user_start(u)
    \/ admin_change_for_user_start(u)
    \/ admin_add_admin_start(u)
    \/ admin_remove_admin_start(u)
    \/ admin_create_permanent_start(u)
    \/ admin_delete_permanent_start(u)

(***************************************************************************)
(* C18: a caller who is not in the list of administrators and presses the  *)
(* button of an administrator flow is refused at once: the bot answers     *)
(* "no rights", the session and both tables stay as they were, and no step *)
(* whatever puts a caller who is not an administrator into a state of      *)
(* AdminStates.                                                            *)
(***************************************************************************)
C18_NonAdminEntryRefused ==
    [][\A u \in AdminCallers :
          ~is_admin(u) =>
             /\ fsm_state[u] \notin AllAdminStates => fsm_state'[u] \notin AllAdminStates
             /\ AdminEntry(u) =>
                   /\ reply' = Reply(u, "no_rights")
                   /\ fsm_state' = fsm_state /\ fsm_data' = fsm_data /\ ADMIN_IDS' = ADMIN_IDS
                   /\ bookings' = bookings /\ permanent_bookings' = permanent_bookings]_vars

\* a caller outside the list has just been refused and has no session
C18_Witness ==
    \E u \in FlowCallers :
        /\ ~is_admin(u)
        /\ reply = Reply(u, "no_rights")
        /\ fsm_state[u] = "None" /\ fsm_data[u] = EmptyData
        /\ update_id = 1

\* the session of u holds no state and no data
Cleared(u) == fsm_state'[u] = "None" /\ fsm_data'[u] = EmptyData

\* the outcomes that end a flow of u, apart from a booking that is not found:
\* confirm_yes at a confirm step, confirm_cancel, the calendar's cancel
\* button, a self-cancel carried out, a rule deletion carried out
FlowEnds(u) ==
    \/ fsm_state[u] \in ConfirmStates /\ confirm_action(u)
    \/ cancel_action(u)
    \/ cancel_calendar(u)
    \/ \E id \in BookingIds(bookings) :
          /\ get_booking_by_id(bookings, id) # <<>>
          /\ \/ fsm_state[u] = "CancelStates:selecting_booking" /\ process_booking_action(u, id)
             \/ confirm_cancel_from_details(u, id)
    \/ \E id \in PermanentIds(permanent_bookings) :
          is_admin(u) /\ admin_delete_permanent_confirm(u, id)

\* u picks, in the list keyboard, a booking that is not found
ListedNotFound(u) ==
    \E id \in BookingIds(bookings) :
        get_booking_by_id(bookings, id) = <<>> /\ process_booking_action(u, id)

\* u picks, in the details view of the bookings calendar, a booking that is
\* not found
DetailsNotFound(u) ==
    \E id \in BookingIds(bookings) :
        /\ get_booking_by_id(bookings, id) = <<>>
        /\ confirm_cancel_from_details(u, id) \/ confirm_change_from_details(u, id)

(***************************************************************************)
(* C19 as stated: every terminal outcome of a flow (confirm_yes at a       *)
(* confirm step whether the store operation succeeds or fails,             *)
(* confirm_cancel, the calendar's cancel button, a selected booking that   *)
(* is not found, a self-cancel or a rule deletion carried out) leaves the  *)
(* caller's session with no state and no data.                             *)
(***************************************************************************)
C19_TerminalOutcomesClear ==
    [][\A u \in FlowCallers :
          (FlowEnds(u) \/ ListedNotFound(u) \/ DetailsNotFound(u)) => Cleared(u)]_vars

(***************************************************************************)
(* C19 amended: the outcomes above clear the session, the booking that is  *)
(* not found included when it was picked in the list keyboard; when it was *)
(* picked in the details view of the bookings calendar the bot only shows  *)
(* an alert and the session stays as it was.                               *)
(***************************************************************************)
C19_TerminalOutcomesClearButDetails ==
    [][\A u \in FlowCallers :
          /\ (FlowEnds(u) \/ ListedNotFound(u)) => Cleared(u)
          /\ DetailsNotFound(u) => (fsm_state'[u] = fsm_state[u] /\ fsm_data'[u] = fsm_data[u])]_vars

\* a booking of seat 2 has just been confirmed: the date and the seat the
\* flow had gathered are gone from the session
C19_Witness ==
    \E u \in FlowCallers :
        /\ reply = Reply(u, "done")
        /\ \E i \in Active(bookings) : bookings[i].place_id = 2 /\ bookings[i].booking_type = "regular"
        /\ fsm_state[u] = "None" /\ fsm_data[u] = EmptyData

\* the state in which the flow of a confirm step takes the seat
ChooseSeat(current_state) ==
    CASE current_state = "BookingStates:confirming_booking" -> "BookingStates:waiting_for_place"
      [] current_state = "ChangeStates:confirming_change" -> "ChangeStates:waiting_for_new_place"
      [] current_state = "AdminStates:booking_for_user_confirm" -> "AdminStates:booking_for_user_place"
      [] current_state = "AdminStates:change_for_user_confirm" -> "AdminStates:change_for_user_confirm"

\* the session of u is at the confirm step of a booking or change flow: the
\* state is one of the four and the seat to confirm has been picked
AtConfirm(u) ==
    /\ fsm_state[u] \in ConfirmStates
    /\ fsm_data[u].booking_date # NoDate
    /\ IF fsm_state[u] \in {"ChangeStates:confirming_change", "AdminStates:change_for_user_confirm"}
       THEN fsm_data[u].new_place_id # NULL
       ELSE fsm_data[u].place_id # NULL

(***************************************************************************)
(* C20: at the confirm step of the self-book, self-change,                 *)
(* admin-book-for-user and admin-change-for-user flows the pick-again      *)
(* button (confirm_change) takes the session to the state in which that    *)
(* flow takes the seat and the bot offers the seats get_available_places   *)
(* returns for the chosen date on the tables as they are at that moment.   *)
(***************************************************************************)
C20_PickAgainOffersFreshSeats ==
    [][\A u \in FlowCallers :
          (AtConfirm(u) /\ change_selection(u))
          => /\ fsm_state'[u] = ChooseSeat(fsm_state[u])
             /\ reply' = PlacesReply(u, get_available_places(bookings, permanent_bookings,
                                                            fsm_data[u].booking_date))]_vars

\* ---------------------------------------------------------------------------
\* C21
\* ---------------------------------------------------------------------------

\* the chosen seat and date are complete and the Database call of confirm_yes
\* refuses them: the seat is taken, or the user already holds that date
Conflict(u) ==
    /\ fsm_state[u] \in ConfirmStates
    /\ fsm_data[u].booking_date # NoDate
    /\ IF fsm_state[u] \in {"BookingStates:confirming_booking",
                            "AdminStates:booking_for_user_confirm"}
       THEN fsm_data[u].place_id # NULL
       ELSE fsm_data[u].new_place_id # NULL
    /\ fsm_state[u] \in {"AdminStates:booking_for_user_confirm",
                         "AdminStates:change_for_user_confirm"}
          => fsm_data[u].target_user_id # NULL
    /\ ~confirm_result(bookings, u, fsm_state[u], fsm_data[u]).ok

\* C21: when accepting at a confirm step hits a conflict, the session is not
\* terminated: the user keeps a session with the same date in which another
\* seat can be picked.
C21_ConflictOffersRetry ==
    [][\A u \in FlowCallers :
          (Conflict(u) /\ confirm_action(u))
          => /\ fsm_state'[u] # "None"
             /\ fsm_data'[u].booking_date = fsm_data[u].booking_date]_vars

\* ---------------------------------------------------------------------------
\* C22
\* ---------------------------------------------------------------------------

\* the administrator has entered the book-for-user flow and no target user
\* has been identified yet
BeforeTarget(u) ==
    /\ fsm_state[u] = "AdminStates:booking_for_user_date"
    /\ fsm_data[u].target_user_id = NULL

\* C22: in the admin-book-for-user flow a selected date is not accepted before
\* a target user has been identified: the date is not stored and the session
\* does not advance to the seat step.
C22_NoDateBeforeTarget ==
    [][\A u \in FlowCallers : \A date_str \in InputDates :
          (BeforeTarget(u) /\ process_date_selection(u, date_str))
          => /\ fsm_state'[u] = fsm_state[u]
             /\ fsm_data'[u].booking_date = fsm_data[u].booking_date]_vars

\* ---------------------------------------------------------------------------
\* C23
\* ---------------------------------------------------------------------------

\* the admin-change-for-user flow has a new date and no seat chosen for it yet
BeforeSeat(u) ==
    /\ fsm_state[u] = "AdminStates:change_for_user_confirm"
    /\ fsm_data[u].new_place_id = NULL

\* C23: in the admin-change-for-user flow an accept confirmation acts only
\* after a seat has been chosen for the new date: before that it neither
\* cancels the old booking nor books anything.
C23_ConfirmOnlyAfterSeat ==
    [][\A u \in FlowCallers :
          (BeforeSeat(u) /\ confirm_action(u)) => bookings' = bookings]_vars

\* ---------------------------------------------------------------------------
\* C24
\* ---------------------------------------------------------------------------

\* the rows of a table differ from the old ones in the status at most
SameButStatus(old, new) ==
    /\ Len(new) = Len(old)
    /\ \A i \in 1..Len(old) : [new[i] EXCEPT !.status = old[i].status] = old[i]

\* C24: cancelling everything flips every active booking to cancelled and
\* every active rule to deleted in one step and reports the number of
\* bookings plus the number of rules it flipped; afterwards no booking and no
\* rule is active and every date offers all the seats 1..TOTAL_PLACES.
C24_CancelAllFreesEverything ==
    [][CancelAllExecute =>
          /\ cancel_all_bookings(bookings, permanent_bookings).count
                = Cardinality(Active(bookings)) + Cardinality(ActiveRules(permanent_bookings))
          /\ SameButStatus(bookings, bookings')
          /\ SameButStatus(permanent_bookings, permanent_bookings')
          /\ \A i \in 1..Len(bookings) :
                bookings'[i].status = "cancelled"
          /\ \A i \in 1..Len(permanent_bookings) :
                permanent_bookings'[i].status = "deleted"
          /\ \A date \in AllDates :
                get_available_places(bookings', permanent_bookings', date) = AllPlaces]_vars

\* everything was cancelled: bookings of both origins and a rule, none active
C24_Witness ==
    /\ \E i \in 1..Len(bookings) : bookings[i].booking_type = "regular"
    /\ \E i \in 1..Len(bookings) : bookings[i].booking_type = "permanent"
    /\ permanent_bookings # <<>>
    /\ Active(bookings) = {}
    /\ ActiveRules(permanent_bookings) = {}
    /\ \A date \in AllDates :
          get_available_places(bookings, permanent_bookings, date) = AllPlaces

\* ---------------------------------------------------------------------------
\* C25
\* ---------------------------------------------------------------------------

\* every old row is still there with its fields; its status is the old one
\* or went from active to the final status
MovesForward(old, new, final) ==
    /\ Len(new) >= Len(old)
    /\ \A i \in 1..Len(old) :
          /\ [new[i] EXCEPT !.status = old[i].status] = old[i]
          /\ \/ new[i].status = old[i].status
             \/ old[i].status = "active" /\ new[i].status = final

\* C25: the status of a booking and of a rule only moves forward: no step
\* removes a booking or a rule, none turns a cancelled booking or a deleted
\* rule back to active, and none changes the user, the seat or the date of a
\* booking (or the user, seat and weekdays of a rule).
C25_StatusOnlyMovesForward ==
    [][/\ MovesForward(bookings, bookings', "cancelled")
       /\ MovesForward(permanent_bookings, permanent_bookings', "deleted")]_vars

\* a cancelled booking and a deleted rule lie in the tables behind newer
\* active rows of the same seat
C25_Witness ==
    /\ \E i, j \in 1..Len(bookings) :
          /\ i < j
          /\ bookings[i].status = "cancelled" /\ bookings[j].status = "active"
          /\ bookings[i].place_id = bookings[j].place_id
          /\ bookings[i].booking_date = bookings[j].booking_date
    /\ \E i, j \in 1..Len(permanent_bookings) :
          /\ i < j
          /\ permanent_bookings[i].status = "deleted"
          /\ permanent_bookings[j].status = "active"
          /\ permanent_bookings[i].place_id = permanent_bookings[j].place_id

\* ---------------------------------------------------------------------------
\* C26
\* ---------------------------------------------------------------------------

\* C26: the creation of a rule with its expansion is all-or-nothing: when an
\* error occurs after the rule row or some of its dated rows were written,
\* the tables end as they were before the call, with neither the rule nor any
\* of its rows, and the call reports failure.
C26_RuleCreationAllOrNothing ==
    [][\A u \in Users, p \in Places, w \in WeekdayLists, fail_at \in 0..MaxFailAt,
          committed \in BOOLEAN :
          PermanentCreateFault(u, p, w, fail_at, committed)
          => /\ bookings' = bookings
             /\ permanent_bookings' = permanent_bookings
             /\ ~create_permanent_booking_failing(bookings, permanent_bookings, today,
                                                  SUPER_ADMIN_ID, u, p, w, fail_at, committed).ok]_vars

\* ---------------------------------------------------------------------------
\* C27
\* ---------------------------------------------------------------------------

\* C27: a persistence error raised during a Database method (availability
\* query, booking insert, cancel, rule creation and deletion) is caught inside
\* the method and returned as a failure: no exception leaves the method.
C27_NoErrorLeavesTheStore == raised = FALSE

\* ---------------------------------------------------------------------------
\* C28
\* ---------------------------------------------------------------------------

\* the listing has the booking of the earlier calendar day first and, when
\* BySeat, the lower seat first among the bookings of one day
CalendarOrdered(bk, list, BySeat) ==
    \A m, n \in 1..Len(list) :
        m < n => LET a == bk[list[m]]
                     b == bk[list[n]]
                 IN  /\ strptime(a.booking_date) <= strptime(b.booking_date)
                     /\ (BySeat /\ a.booking_date = b.booking_date) => a.place_id <= b.place_id

\* C28: the listings return the active bookings in ascending calendar order,
\* the listing of a user by date and the listing of all by (date, seat), also
\* across months and years.
C28_ListingsInCalendarOrder ==
    /\ \A u \in Users : CalendarOrdered(bookings, get_user_bookings_list(bookings, u), FALSE)
    /\ CalendarOrdered(bookings, get_all_bookings(bookings, users), TRUE)

\* ---------------------------------------------------------------------------
\* C29
\* ---------------------------------------------------------------------------

\* a cancelled booking of recurring origin exists for the seat on the date
Released(bk, place_id, date) ==
    \E i \in 1..Len(bk) : /\ bk[i].place_id = place_id /\ bk[i].booking_date = date
                          /\ bk[i].booking_type = "permanent" /\ bk[i].status = "cancelled"

\* some booking of the seat on the date is active
Taken(bk, place_id, date) ==
    \E i \in Active(bk) : bk[i].place_id = place_id /\ bk[i].booking_date = date

\* C29: for every date, inside the expansion horizon or beyond it, the list
\* of free seats leaves out the seat of every active rule that names the
\* weekday of the date, whether or not an instance of the rule exists on the
\* date, unless a cancelled booking of recurring origin exists for the seat
\* on the date; with such a booking the rule does not hold the seat back.
C29_RuleBlocksItsWeekdays ==
    \A date \in AllDates : \A r \in ActiveRules(permanent_bookings) :
        Covers(permanent_bookings, r, date)
        => LET place_id == permanent_bookings[r].place_id
               listed == place_id \in Elems(get_available_places(bookings, permanent_bookings, date))
           IN  IF Released(bookings, place_id, date)
               THEN listed <=> ~Taken(bookings, place_id, date)
               ELSE ~listed

\* an active rule holds its seat back on a date beyond the horizon and on a
\* date the expansion skipped, where the seat has no row of the rule and no
\* active row at all
C29_Witness ==
    \E r \in ActiveRules(permanent_bookings) :
        LET place_id == permanent_bookings[r].place_id
            NoRow(date) == /\ ~Taken(bookings, place_id, date)
                           /\ \A i \in InstancesOf(bookings, r) : bookings[i].booking_date # date
            Listed(date) == place_id \in Elems(get_available_places(bookings, permanent_bookings, date))
        IN  /\ \E date \in AllDates :
                  /\ strptime(date) >= today + HORIZON_DAYS
                  /\ Covers(permanent_bookings, r, date) /\ NoRow(date) /\ ~Listed(date)
            /\ \E date \in AllDates :
                  /\ strptime(date) < today + HORIZON_DAYS /\ strptime(date) >= today
                  /\ Covers(permanent_bookings, r, date) /\ NoRow(date) /\ ~Listed(date)

\* ---------------------------------------------------------------------------
\* C30
\* ---------------------------------------------------------------------------

\* the step inserted an active booking of the seat on the date
Booked(place_id, date) ==
    /\ Len(bookings') = Len(bookings) + 1
    /\ bookings'[Len(bookings')].place_id = place_id
    /\ bookings'[Len(bookings')].booking_date = date
    /\ bookings'[Len(bookings')].status = "active"

\* C30: a booking, on the user's own path or on the administrator's, never
\* succeeds for a seat that the list of free seats of the date does not
\* contain at that moment; a seat held back only by an active rule, with no
\* active booking on the date, cannot be booked by anyone.
C30_BookOnlyListedSeats ==
    [][\A u \in Users, p \in Places, d \in InputDates :
          ((ConfirmBooking(u, p, d) \/ ConfirmAdminBooking(u, p, d)) /\ Booked(p, d))
          => p \in Elems(get_available_places(bookings, permanent_bookings, d))]_vars

\* ---------------------------------------------------------------------------
\* C31
\* ---------------------------------------------------------------------------

\* the states the entry handlers set
EntryStates ==
    {"BookingStates:waiting_for_date", "CancelStates:selecting_booking",
     "ChangeStates:selecting_booking", "AdminStates:waiting_for_user_identifier",
     "AdminStates:booking_for_user_date", "AdminStates:change_for_user_select",
     "AdminStates:adding_admin", "AdminStates:removing_admin",
     "AdminStates:permanent_user_id", "AdminStates:delete_permanent_user"}

\* u opens a flow in this step: a menu button or an administrator button is
\* handled and sets the first state of its flow
FlowEntered(u) ==
    /\ start_booking(u) \/ start_cancel(u) \/ start_change(u) \/ AdminEntry(u)
    /\ reply'.kind \in {"calendar", "bookings", "prompt"}
    /\ fsm_state'[u] \in EntryStates

\* C31: on entering a flow the session holds no field accumulated in an
\* earlier flow that was abandoned: no seat, date, target user or old booking
\* id of a previous flow is left for a later confirm step, and the flow that
\* creates a rule starts with no weekday selected.
C31_EntryStartsWithEmptySession ==
    [][\A u \in FlowCallers : FlowEntered(u) => fsm_data'[u] = EmptyData]_vars

\* ---------------------------------------------------------------------------
\* C32
\* ---------------------------------------------------------------------------

\* the weekdays of a stored rule: a list of days 0..6 that is not empty
WeekdaysValid(text) ==
    LET days == ParseWeekdays(text)
    IN  /\ text # <<>>
        /\ \A k \in 1..Len(days) : days[k] \in 0..6

\* C32: every rule in permanent_bookings has a weekday set that is not empty
\* and holds days 0..6 only; pressing "done" with no day selected is refused
\* and leaves the session at the weekday step.
C32_RulesHaveWeekdays ==
    /\ [](\A r \in 1..Len(permanent_bookings) : WeekdaysValid(permanent_bookings[r].weekdays))
    /\ [][\A u \in FlowCallers :
             (/\ admin_permanent_toggle_day(u, "confirm")
              /\ fsm_data[u].selected_weekdays = <<>>)
             => /\ fsm_state'[u] = "AdminStates:permanent_days"
                /\ reply' = Reply(u, "choose_a_day")]_vars

\* ---------------------------------------------------------------------------
\* C33
\* ---------------------------------------------------------------------------

\* u accepts the confirmation of a self-change and the new booking is inserted
ChangeBooked(u) ==
    /\ fsm_state[u] = "ChangeStates:confirming_change"
    /\ confirm_action(u)
    /\ Len(bookings') = Len(bookings) + 1

\* C33: in a self-change, whenever the new booking is created, the booking
\* selected as the old one was active and the caller's own and is cancelled
\* by the same confirmation, so that a successful change never increases the
\* number of active bookings of the caller, also when the old booking was
\* cancelled by someone else after it was selected.
C33_ChangeReplacesOldBooking ==
    [][\A u \in FlowCallers :
          ChangeBooked(u)
          => LET old == fsm_data[u].old_booking_id
             IN  /\ old \in 1..Len(bookings)
                 /\ bookings[old].status = "active"
                 /\ bookings[old].user_id = u
                 /\ bookings'[old].status = "cancelled"
                 /\ Cardinality(get_user_bookings(bookings', u))
                       <= Cardinality(get_user_bookings(bookings, u))]_vars

\* ---------------------------------------------------------------------------
\* C34
\* ---------------------------------------------------------------------------

\* C34: at the date step of the self-book flow a date on which the caller
\* already holds an active booking, or on which no seat is free, is refused:
\* the session stays at the date step, records no date, and the tables stay
\* as they are.
C34_DateStepRefuses ==
    [][\A u \in FlowCallers, date_str \in InputDates :
          (/\ fsm_state[u] = "BookingStates:waiting_for_date"
           /\ \/ has_user_booking_on_date(bookings, u, date_str)
              \/ get_available_places(bookings, permanent_bookings, date_str) = <<>>
           /\ process_date_selection(u, date_str))
          => /\ fsm_state'[u] = "BookingStates:waiting_for_date"
             /\ fsm_data' = fsm_data
             /\ reply'.kind \in {"already_booked", "all_taken"}
             /\ bookings' = bookings /\ permanent_bookings' = permanent_bookings]_vars

\* a caller without a booking has just been told that the day is booked out
\* and is still at the date step with no date
C34_Witness ==
    \E u \in FlowCallers :
        /\ reply = Reply(u, "all_taken")
        /\ fsm_state[u] = "BookingStates:waiting_for_date"
        /\ fsm_data[u].booking_date = NoDate
        /\ get_user_bookings(bookings, u) = {}

\* the days of the window [today, today + 60) that fall on a weekday of the
\* rule and on which the seat of the rule has no active booking
DueDays(bk, now, rule) ==
    {d \in now..(now + HORIZON_DAYS - 1) :
        /\ weekday(d) \in Elems(ParseWeekdays(rule.weekdays))
        /\ ~\E i \in Active(bk) : bk[i].place_id = rule.place_id /\ bk[i].booking_date = strftime(d)}

(***************************************************************************)
(* C35: a step that creates a rule inserts one row for each day of the     *)
(* window [today, today + 60) that is on a weekday of the rule and on      *)
(* which the seat had no active booking, and no other row: every inserted  *)
(* row is an active recurring-origin booking of the rule's user on the     *)
(* rule's seat and carries the id of the new rule.                         *)
(***************************************************************************)
C35_RuleCreationExpandsExactly ==
    [][Len(permanent_bookings') = Len(permanent_bookings) + 1 =>
          LET r == Len(permanent_bookings')
              rule == permanent_bookings'[r]
              due == DueDays(bookings, today, rule)
              new == (Len(bookings) + 1)..Len(bookings')
          IN  /\ Len(bookings') = Len(bookings) + Cardinality(due)
              /\ \A d \in due : \E k \in new : bookings'[k].booking_date = strftime(d)
              /\ \A k \in new :
                    /\ bookings'[k].booking_date \in {strftime(d) : d \in due}
                    /\ bookings'[k].user_id = rule.user_id
                    /\ bookings'[k].place_id = rule.place_id
                    /\ bookings'[k].status = "active"
                    /\ bookings'[k].booking_type = "permanent"
                    /\ bookings'[k].permanent_booking_id = r]_vars

\* a rule created today has its first instance a week from today and its last
\* on the 57th day of the window, and none on the covered day on which the seat was
\* taken by a regular booking made before
C35_Witness ==
    \E r \in ActiveRules(permanent_bookings) :
        LET dates == {bookings[k].booking_date : k \in InstancesOf(bookings, r)}
        IN  /\ strftime(today + 7) \in dates
            /\ strftime(today + 56) \in dates
            /\ strftime(today + 63) \notin dates
            /\ strftime(today) \notin dates
            /\ Covers(permanent_bookings, r, strftime(today))
            /\ \E i \in Active(bookings) :
                  /\ bookings[i].place_id = permanent_bookings[r].place_id
                  /\ bookings[i].booking_date = strftime(today)
                  /\ bookings[i].booking_type = "regular"
                  /\ \A k \in InstancesOf(bookings, r) : i < k

\* ---------------------------------------------------------------------------
\* C36
\* ---------------------------------------------------------------------------

\* the telegram id a text names: the number itself or the owner of the username
Named(identifier) == identifier[2]

\* C36: when the text an administrator sends to name the user of an on-behalf
\* booking or of a rule, a number or a username, names nobody in the table
\* users, the bot answers that the user was not found, records no target and
\* stays at the step; hence no booking and no rule belongs to a user who is
\* not in the table users.
C36_UnknownUserNotFound ==
    /\ [][\A u \in FlowCallers, identifier \in Identifiers :
            (/\ is_admin(u)
             /\ Named(identifier) \notin users
             /\ \/ admin_book_for_user_get_user(u, identifier)
                \/ admin_permanent_get_user(u, identifier))
            => /\ reply' = Reply(u, "user_not_found")
               /\ fsm_data' = fsm_data
               /\ fsm_state' = fsm_state]_vars
    /\ [](/\ \A i \in 1..Len(bookings) : bookings[i].user_id \in users
          /\ \A r \in 1..Len(permanent_bookings) : permanent_bookings[r].user_id \in users)

\* ---------------------------------------------------------------------------
\* C38
\* ---------------------------------------------------------------------------

\* C38: in every reachable state every active booking is one of the rows
\* get_all_bookings() lists.
C38_AllActiveBookingsListed ==
    \A i \in Active(bookings) : i \in Elems(get_all_bookings(bookings, users))

\* ---------------------------------------------------------------------------
\* C37
\* ---------------------------------------------------------------------------

\* row i of bookings is an active instance of rule id dated today or later
OwnFutureInstance(i, id) ==
    /\ bookings[i].permanent_booking_id = id
    /\ bookings[i].status = "active"
    /\ strptime(bookings[i].booking_date) >= today

C39_AdminListMatchesTable ==
    /\ [](ADMIN_IDS = admins /\ SUPER_ADMIN_ID \in admins)
    /\ [][\A u \in AdminCallers, identifier \in AdminIdentifiers :
            (/\ is_admin(u)
             /\ ResolveIdentifier(users, identifier) = SUPER_ADMIN_ID
             /\ admin_remove_admin_process(u, identifier))
            => /\ reply' = Reply(u, "protected")
               /\ ADMIN_IDS' = ADMIN_IDS
               /\ admins' = admins]_vars

\* an administrator added through the bot is in the list and in the table,
\* and the removal of the super administrator has just been refused
C39_Witness ==
    /\ MaxUser \in ADMIN_IDS
    /\ MaxUser \in admins
    /\ reply.kind = "protected"
    /\ SUPER_ADMIN_ID \in ADMIN_IDS

====
